---- MODULE Spec2Model ----
(***************************************************************************)
(* Binance futures bearish tracker: the monitor's tracked-symbol state     *)
(* machine (src/src/index.ts), the backtest's processDay                   *)
(* (src/src/backtest/index.ts) and the signal scoring of analyzeSymbol     *)
(* (src/src/indicators/analyzer.ts).                                       *)
(*                                                                         *)
(* Prices are positive integers; a drop percentage (h - l) / h * 100 is    *)
(* compared exactly, as a cross-multiplication.  Time is counted in units  *)
(* of one week, so that oneWeekInMs is one unit.  The signals field of a   *)
(* tracked symbol is payload that no condition reads and is left out.      *)
(***************************************************************************)
EXTENDS Integers, Naturals, Sequences, FiniteSets, TLC

\* ---------------------------------------------------------------- bounds
NumSymbols == 2
PriceSteps == 3
MaxTime == 3
MaxSent == 2
MaxAvg == 3

NumDays == 3
MaxList == 2
MaxRetries == 3
MaxTrading == 12

Symbols == 1..NumSymbols
\* From 20 a fall to 19 is a drop of exactly 5%, from 21 a fall to 20 is less
\* and a fall to 19 is more; 22 is a new high after that
Prices == 19..(19 + PriceSteps)
Times == 1..MaxTime

\* ------------------------------------------------------ program constants
\* 7 * 24 * 60 * 60 * 1000 ms, in the model's time unit (one week)
oneWeekInMs == 1
\* setTimeout delays of startMonitoring, in minutes
NextCheckDelay == 60
RetryDelay == 5
\* result.probability > 70
ProbabilityThreshold == 70
\* dropPercentage > 5 (monitor), dropPercent >= 5 (backtest)
DropThreshold == 5

\* backtest/index.ts 44: endDateObj.getDate() + 7
DefaultBacktestDays == 7
\* A Date is an instant counted in hours; a calendar day has 24 of them
HoursPerDay == 24
\* The calendar days a backtest is started on and asked to end on; day 1 is
\* the day before the first of them
BacktestDays == 2..(NumDays + 1)
\* Local time zones: west of UTC, UTC, east of UTC
TimeZones == {-5, 0, 8}

\* index.ts 290-297: the command line, with its defaults
Limits == {20, 50}
Intervals == {"1h", "4h"}
DefaultArgs == [limit |-> 20, interval |-> "1h"]

\* The probabilities analyzeSymbol is taken to return in the monitor: the
\* threshold itself, and two values above it.
ProbValues == {70, 71, 100}

NoEntry == [absent |-> TRUE]
NoResult == [absent |-> TRUE]
NoPrice == 0
NoIndicators == [absent |-> TRUE]
NoSave == <<>>
NoDate == 0
Loops == {"index.ts", "main.ts"}
Entries == {"src/index.ts", "main.ts"}
chunkSize == 10
BatchDelay == 500
TradingSymbols == 1..MaxTrading
HistoricalLimits == {2, 20}
NoError == [kind |-> "undefined", id |-> 0]

VARIABLES
  pc,                        \* position of startMonitoring: idle, fetch, analyze, notify, save
  trackedSymbols,            \* the module-level Map of index.ts
  analysisFile,              \* the persisted analysis file, as last written
  listed,                    \* the symbols the exchange lists in its ticker
  now,                       \* Date.now()
  timer,                     \* delay of the pending setTimeout, 0 if none
  gainersList,               \* const gainersList of the running cycle
  results,                   \* const results of the running cycle
  weakBullishSymbols,        \* queue of exhaustion notifications still to send
  confirmedDowntrendSymbols, \* queue of confirmed-downtrend notifications still to send
  network,                   \* outcome of the cycle's ticker request: none, ok, error
  candles,                   \* per symbol, outcome of the cycle's fetchCandles call
  thrown,                    \* the failure that reached startMonitoring's catch, or "none"
  newHigh,                   \* symbols that made a new high in the running cycle
  confirmedSent,             \* per symbol: confirmed notifications sent since its last new high
  weakSent,                  \* per symbol: exhaustion notifications sent since its last new high
  savedTracking,             \* the trackingData handed to the last saveAnalysisResult call
  notifyLog,                 \* the notify calls of the running cycle, in call order
  args,                      \* the parsed command line: --limit and --interval
  limit,                     \* parameter limit of the startMonitoring call
  interval,                  \* parameter interval of the startMonitoring call
  pending,                   \* the setTimeout callbacks that have not fired yet
  btTracked,                 \* the module-level Map of backtest/index.ts
  uptrendFailureSignals,     \* processDay: the symbols reported as exhausted that day
  downtrendConfirmedSignals, \* processDay: the symbols reported as confirmed that day
  btArgs,                    \* runBacktest: the arguments startDate and endDate
  timeZone,                  \* the local time zone, in hours east of UTC
  today,                     \* the calendar day of the run
  endDate,                   \* runBacktest: endDate, after its default was filled in
  currentDate,               \* runBacktest: the Date object currentDate, in hours
  endDateObj,                \* runBacktest: the Date object endDateObj, in hours
  btPc,                      \* position of runBacktest: idle, called, loop, done, failed
  processedDays,             \* the dates processDay was called with, in call order
  failureDays,               \* per symbol: days it was reported as exhausted since its last new high
  confirmedDays,             \* per symbol: days it was reported as confirmed since its last new high
  symbolInfos,               \* analyzeSymbols: the parameter symbols, an array
  listPos,                   \* analyzeSymbols: the place of the for loop in symbols
  listOutcomes,              \* analyzeSymbols: what the loop body came to, per place
  listResults,               \* analyzeSymbols: the array results
  listPc,                    \* position of analyzeSymbols: idle, loop, returned
  retries,                   \* withRetry: the parameter retries
  delayMs,                   \* withRetry: the parameter delayMs
  attempt,                   \* withRetry: the loop variable i
  lastError,                 \* withRetry: the variable lastError
  fnCalls,                   \* withRetry: what each call of fn came to, in call order
  delays,                    \* withRetry: the delay calls made, each with its i and its ms
  retryPc,                   \* position of withRetry: idle, loop, wait, returned, threw
  retryValue,                \* withRetry: the value returned or the error thrown
  hgPc,                      \* position of fetchHistoricalGainers
  hgTrading,                 \* fetchHistoricalGainers: how many symbols are TRADING
  hgLimit,                   \* fetchHistoricalGainers: the parameter limit
  hgStart,                   \* fetchHistoricalGainers: the loop variable i
  hgChain,                   \* per symbol: its request chain not started, inflight, item, null
  hgBatchOf,                 \* per symbol: the batches whose chunk it was part of
  hgBatches,                 \* fetchHistoricalGainers: the batches started so far
  hgDelays,                  \* fetchHistoricalGainers: the 500 ms timers that have fired
  gainersData,               \* fetchHistoricalGainers: the variable gainersData
  sortedGainers,             \* fetchHistoricalGainers: the value returned
  entry,                     \* the file the program was started with
  loopPc,                    \* per startMonitoring chain: where its running cycle stands
  sweepAt,                   \* analyzeSymbols: how many candle cases have been analysed
  emitted,                   \* the names of the signals in the results so far
  indicatorFn,               \* the indicator function called: calculateRSI or calculateEMA
  inputArray,                \* its first parameter: candles, or data
  periodArg,                 \* its parameter period
  outputArray,               \* the array it returned
  indicatorPc,               \* position of the indicator function: idle, called, returned
  indicators,                \* analyzeSymbol: the indicator values of the candles
  analysisResult             \* analyzeSymbol: the returned result

monitorVars == <<pc, trackedSymbols, analysisFile, listed, now, timer, gainersList, results,
                 weakBullishSymbols, confirmedDowntrendSymbols, network, candles, thrown,
                 newHigh, confirmedSent, weakSent, savedTracking, notifyLog, args, limit, interval,
                 pending>>
backtestVars == <<btTracked, uptrendFailureSignals, downtrendConfirmedSignals>>
analyzerVars == <<indicators, analysisResult>>
runVars == <<btArgs, timeZone, today, endDate, currentDate, endDateObj, btPc, processedDays,
            failureDays, confirmedDays>>
listVars == <<symbolInfos, listPos, listOutcomes, listResults, listPc>>
retryVars == <<retries, delayMs, attempt, lastError, fnCalls, delays, retryPc, retryValue>>
batchVars == <<hgPc, hgTrading, hgLimit, hgStart, hgChain, hgBatchOf, hgBatches, hgDelays, gainersData, sortedGainers>>
loopVars == <<entry, loopPc>>
pipelineVars == <<sweepAt, emitted>>
arrayVars == <<indicatorFn, inputArray, periodArg, outputArray, indicatorPc>>
otherVars == <<backtestVars, analyzerVars, runVars, listVars, retryVars, batchVars, loopVars, pipelineVars, arrayVars>>

vars == <<monitorVars, otherVars>>

\* ------------------------------------------------------------ tracked map
Has(map, s) == map[s] # NoEntry

EmptyMap == [s \in Symbols |-> NoEntry]

NewTracked(price, t) ==
  [lastPrice |-> price, highestPrice |-> price, lastUpdateTime |-> t,
   downtrend |-> FALSE, downtrendConfirmed |-> FALSE, downtrendNotified |-> FALSE]

\* index.ts 60-77: every persisted item replaces the in-memory entry
Restore(map, historicalData, t) ==
  [s \in Symbols |->
     IF Has(historicalData, s) /\ historicalData[s].lastPrice # 0
     THEN [lastPrice |-> historicalData[s].lastPrice,
           highestPrice |-> IF historicalData[s].highestPrice # 0
                            THEN historicalData[s].highestPrice
                            ELSE historicalData[s].lastPrice,
           lastUpdateTime |-> IF historicalData[s].timestamp # 0
                              THEN historicalData[s].timestamp
                              ELSE t,
           downtrend |-> historicalData[s].downtrend,
           downtrendConfirmed |-> historicalData[s].downtrendConfirmed,
           downtrendNotified |-> historicalData[s].downtrendNotified]
     ELSE map[s]]

\* index.ts 105: gainer.lastPrice > trackedSymbol.highestPrice
IsNewHigh(price, tracked) == price > tracked.highestPrice

\* A new high that resets downtrend alone
UpdateTrackedSymbolKeepsConfirmed(tracked, price, t) ==
  IF IsNewHigh(price, tracked)
  THEN [tracked EXCEPT !.lastPrice = price, !.highestPrice = price,
                       !.lastUpdateTime = t, !.downtrend = FALSE]
  ELSE [tracked EXCEPT !.lastPrice = price, !.lastUpdateTime = t]

\* A new high that leaves downtrendNotified as it is
UpdateTrackedSymbolKeepsNotified(tracked, price, t) ==
  IF IsNewHigh(price, tracked)
  THEN [tracked EXCEPT !.lastPrice = price, !.highestPrice = price,
                       !.lastUpdateTime = t, !.downtrend = FALSE,
                       !.downtrendConfirmed = FALSE]
  ELSE [tracked EXCEPT !.lastPrice = price, !.lastUpdateTime = t]

\* An update that leaves the high where it is
UpdateTrackedSymbolKeepsHigh(tracked, price, t) ==
  [tracked EXCEPT !.lastPrice = price, !.lastUpdateTime = t]

\* index.ts 100-116: an already tracked gainer
UpdateTrackedSymbol(tracked, price, t) ==
  IF IsNewHigh(price, tracked)
  THEN [lastPrice |-> price, highestPrice |-> price, lastUpdateTime |-> t,
        downtrend |-> FALSE, downtrendConfirmed |-> FALSE, downtrendNotified |-> FALSE]
  ELSE [tracked EXCEPT !.lastPrice = price, !.lastUpdateTime = t]

\* An update that stamps every tracked symbol
UpdateTrackedStampsAll(map, gainers, t) ==
  [s \in Symbols |->
     IF gainers[s] = NoPrice
     THEN (IF Has(map, s) THEN [map[s] EXCEPT !.lastUpdateTime = t] ELSE map[s])
     ELSE IF ~Has(map, s) THEN NewTracked(gainers[s], t)
     ELSE UpdateTrackedSymbol(map[s], gainers[s], t)]

\* index.ts 84-117
UpdateTracked(map, gainers, t) ==
  [s \in Symbols |->
     IF gainers[s] = NoPrice THEN map[s]
     ELSE IF ~Has(map, s) THEN NewTracked(gainers[s], t)
     ELSE UpdateTrackedSymbol(map[s], gainers[s], t)]

\* --------------------------------------------------------------- API layer
EmptyGainers == [s \in Symbols |-> NoPrice]

\* The gainers a ticker response can list: per symbol its lastPrice, or NoPrice
GainerLists(exchange) ==
  {g \in [Symbols -> Prices \cup {NoPrice}] : \A s \in Symbols \ exchange : g[s] = NoPrice}

\* The ticker responses: a network error or non-OK status, or a list of gainers
TickerResponses(exchange) ==
  {[ok |-> FALSE, data |-> EmptyGainers]}
  \cup {[ok |-> TRUE, data |-> g] : g \in GainerLists(exchange)}

\* A fetchGainersList that logs a failure and returns the empty list
fetchGainersListReturnsEmpty(response) ==
  IF ~response.ok
  THEN [threw |-> FALSE, value |-> EmptyGainers]
  ELSE [threw |-> FALSE, value |-> response.data]

\* binance.ts 25-59: a failure is logged and thrown again
fetchGainersList(response) ==
  IF ~response.ok
  THEN [threw |-> TRUE, value |-> EmptyGainers]
  ELSE [threw |-> FALSE, value |-> response.data]

\* What a klines request can come to: a failure (length -1), fewer than 30
\* candles, or at least 30 candles for which analyzeSymbol returns the probability
MinCandles == 30
CandleOutcomes ==
  {[ok |-> FALSE, length |-> 0, probability |-> 0],
   [ok |-> TRUE, length |-> MinCandles - 1, probability |-> 0]}
  \cup {[ok |-> TRUE, length |-> MinCandles, probability |-> p] : p \in ProbValues}

NoCandles == [ok |-> FALSE, length |-> 0, probability |-> 0]

\* binance.ts 70-112: a failure is logged and thrown again
fetchCandles(outcome) ==
  IF ~outcome.ok
  THEN [threw |-> TRUE, value |-> NoCandles]
  ELSE [threw |-> FALSE, value |-> outcome]

\* analyzer.ts 24-51: one result per symbol whose candles arrived, 30 or more
analyzeSymbols(symbolsToAnalyze, outcomes) ==
  [s \in Symbols |->
     IF symbolsToAnalyze[s] = NoPrice THEN NoResult
     ELSE LET r == fetchCandles(outcomes[s])
          IN IF r.threw \/ r.value.length < MinCandles THEN NoResult
             ELSE [probability |-> r.value.probability, price |-> symbolsToAnalyze[s]]]

\* index.ts 120-125
SymbolsToAnalyze(map) ==
  [s \in Symbols |-> IF Has(map, s) THEN map[s].lastPrice ELSE NoPrice]

\* ------------------------------------------------------- result processing
\* dropPercentage >= 5, the comparison of the backtest
DropExceedsOrEquals(tracked) ==
  /\ tracked.highestPrice > 0
  /\ (tracked.highestPrice - tracked.lastPrice) * 100 >= DropThreshold * tracked.highestPrice

\* index.ts 141-144 and 164: dropPercentage > 5, without the division
DropExceeds(tracked) ==
  /\ tracked.highestPrice > 0
  /\ (tracked.highestPrice - tracked.lastPrice) * 100 > DropThreshold * tracked.highestPrice

\* result.probability >= 70
IsWeakBullishAtThreshold(tracked, result) ==
  /\ result.probability >= ProbabilityThreshold
  /\ tracked.lastPrice < tracked.highestPrice
  /\ ~tracked.downtrend

\* index.ts 147-151
IsWeakBullish(tracked, result) ==
  /\ result.probability > ProbabilityThreshold
  /\ tracked.lastPrice < tracked.highestPrice
  /\ ~tracked.downtrend

\* index.ts 164
IsConfirmedDowntrend(tracked) ==
  DropExceeds(tracked) /\ ~tracked.downtrendConfirmed

\* index.ts 133-178, the tracked symbol after its result was processed
ProcessResult(tracked, result) ==
  [tracked EXCEPT
     !.downtrend = IF IsWeakBullish(tracked, result) THEN TRUE ELSE @,
     !.downtrendConfirmed = IF IsConfirmedDowntrend(tracked) THEN TRUE ELSE @,
     !.downtrendNotified = IF IsConfirmedDowntrend(tracked) THEN TRUE ELSE @]

\* index.ts 133-135: only symbols with a result are looked at
ProcessResults(map, res) ==
  [s \in Symbols |->
     IF Has(map, s) /\ res[s] # NoResult THEN ProcessResult(map[s], res[s]) ELSE map[s]]

\* index.ts 153-160 and 168-175: the record pushed for a notification
Alert(s, tracked, result) ==
  [symbol |-> s, probability |-> result.probability, lastPrice |-> tracked.lastPrice,
   highestPrice |-> tracked.highestPrice]

\* index.ts 196-206 and 233-243: the argument of notify; a confirmed
\* downtrend is sent with probability 100
Notification(kind, alert) ==
  [kind |-> kind, symbol |-> alert.symbol,
   probability |-> IF kind = "confirmed" THEN 100 ELSE alert.probability,
   price |-> alert.lastPrice, highestPrice |-> alert.highestPrice]

\* index.ts 152-160: the symbols pushed to weakBullishSymbols
WeakBullishSet(map, res) ==
  {s \in Symbols : Has(map, s) /\ res[s] # NoResult /\ IsWeakBullish(map[s], res[s])}

\* index.ts 164-176: the symbols pushed to confirmedDowntrendSymbols
ConfirmedDowntrendSet(map, res) ==
  {s \in Symbols : /\ Has(map, s) /\ res[s] # NoResult
                   /\ IsConfirmedDowntrend(map[s])
                   /\ ~map[s].downtrendNotified}

\* A comparator that places the lesser key first
BeforeAscending(kind, a, b) ==
  IF kind = "probability"
  THEN a.probability < b.probability
  ELSE IF kind = "change"
  THEN a.priceChangePercent < b.priceChangePercent
  ELSE (a.highestPrice - a.lastPrice) * b.highestPrice
         < (b.highestPrice - b.lastPrice) * a.highestPrice

\* b's key minus a's key is negative: a is placed before b.  kind is
\* "probability" (index.ts 185), "change" (binance.ts 255) or "drop"
\* (index.ts 220-222)
Before(kind, a, b) ==
  IF kind = "probability"
  THEN a.probability > b.probability
  ELSE IF kind = "change"
  THEN a.priceChangePercent > b.priceChangePercent
  ELSE (a.highestPrice - a.lastPrice) * b.highestPrice
         > (b.highestPrice - b.lastPrice) * a.highestPrice

RECURSIVE Insert(_, _, _)
Insert(x, sorted, kind) ==
  IF sorted = <<>> THEN <<x>>
  ELSE IF Before(kind, x, Head(sorted)) THEN <<x>> \o sorted
  ELSE <<Head(sorted)>> \o Insert(x, Tail(sorted), kind)

\* Array.prototype.sort with the comparator of kind: descending and stable
RECURSIVE Sort(_, _)
Sort(seq, kind) ==
  IF seq = <<>> THEN <<>>
  ELSE Insert(seq[Len(seq)], Sort(SubSeq(seq, 1, Len(seq) - 1), kind), kind)

\* The alerts of the symbols of set among 1..n, in the order of the results
RECURSIVE Alerts(_, _, _, _)
Alerts(n, set, map, res) ==
  IF n = 0 THEN <<>>
  ELSE Alerts(n - 1, set, map, res)
         \o (IF n \in set THEN <<Alert(n, map[n], res[n])>> ELSE <<>>)

\* ------------------------------------------------------------- persistence
\* index.ts 249-258
TrackingData(map) ==
  [s \in Symbols |->
     IF Has(map, s)
     THEN [lastPrice |-> map[s].lastPrice, highestPrice |-> map[s].highestPrice,
           timestamp |-> map[s].lastUpdateTime, downtrend |-> map[s].downtrend,
           downtrendConfirmed |-> map[s].downtrendConfirmed,
           downtrendNotified |-> map[s].downtrendNotified]
     ELSE NoEntry]

\* storage.ts 261-276: a failed write is logged and the file keeps its content
saveAnalysisResult(file, data, writeOk) == IF writeOk THEN data ELSE file

\* storage.ts 339-367: no file, or a failed read, gives the empty array
loadHistoryAnalysis(file, readOk) == IF readOk THEN file ELSE EmptyMap

\* A cleanup after two weeks
CleanupTwoWeeks(map, t) ==
  [s \in Symbols |->
     IF Has(map, s) /\ t - map[s].lastUpdateTime > 2 * oneWeekInMs THEN NoEntry ELSE map[s]]

\* index.ts 263-272
Cleanup(map, t) ==
  [s \in Symbols |->
     IF Has(map, s) /\ t - map[s].lastUpdateTime > oneWeekInMs THEN NoEntry ELSE map[s]]

\* ----------------------------------------------------------------- backtest
\* backtest/index.ts 141-147: dropPercent >= 5, without the division
DropAtLeast(highestPrice, currentPrice) ==
  /\ highestPrice > 0
  /\ (highestPrice - currentPrice) * 100 >= DropThreshold * highestPrice

\* A new high that resets downtrend alone
ProcessDayTrackedKeepsConfirmed(tracked, currentPrice, date) ==
  LET high == IF currentPrice > tracked.highestPrice
              THEN [tracked EXCEPT !.highestPrice = currentPrice, !.downtrend = FALSE]
              ELSE tracked
      fall == IF currentPrice < high.lastPrice /\ ~high.downtrend
              THEN [high EXCEPT !.downtrend = TRUE]
              ELSE high
      conf == IF /\ fall.downtrend
                 /\ DropAtLeast(fall.highestPrice, currentPrice)
                 /\ ~fall.downtrendConfirmed
              THEN [fall EXCEPT !.downtrendConfirmed = TRUE]
              ELSE fall
  IN [conf EXCEPT !.lastPrice = currentPrice, !.lastUpdateTime = date]

\* backtest/index.ts 112-158: an already tracked gainer
ProcessDayTracked(tracked, currentPrice, date) ==
  LET high == IF currentPrice > tracked.highestPrice
              THEN [tracked EXCEPT !.highestPrice = currentPrice,
                                   !.downtrend = FALSE,
                                   !.downtrendConfirmed = FALSE,
                                   !.downtrendNotified = FALSE]
              ELSE tracked
      fall == IF currentPrice < high.lastPrice /\ ~high.downtrend
              THEN [high EXCEPT !.downtrend = TRUE]
              ELSE high
      conf == IF /\ fall.downtrend
                 /\ DropAtLeast(fall.highestPrice, currentPrice)
                 /\ ~fall.downtrendConfirmed
              THEN [fall EXCEPT !.downtrendConfirmed = TRUE]
              ELSE fall
  IN [conf EXCEPT !.lastPrice = currentPrice, !.lastUpdateTime = date]

\* backtest/index.ts 108-172
ProcessDayGainers(map, gainers, date) ==
  [s \in Symbols |->
     IF gainers[s] = NoPrice THEN map[s]
     ELSE IF Has(map, s) THEN ProcessDayTracked(map[s], gainers[s], date)
     ELSE NewTracked(gainers[s], date)]

\* backtest/index.ts 182-199: the symbols pushed to uptrendFailureSignals
UptrendFailureSet(map) ==
  {s \in Symbols : Has(map, s) /\ map[s].downtrend /\ ~map[s].downtrendNotified}

\* backtest/index.ts 201-226: the symbols pushed to downtrendConfirmedSignals
DowntrendConfirmedSet(map) ==
  {s \in Symbols : Has(map, s) /\ map[s].downtrendConfirmed /\ ~map[s].downtrendNotified}

\* backtest/index.ts 224-225: the reported symbols are marked as notified
MarkNotified(map) ==
  [s \in Symbols |->
     IF s \in DowntrendConfirmedSet(map)
     THEN [map[s] EXCEPT !.downtrendNotified = TRUE]
     ELSE map[s]]

\* ------------------------------------------------------------------ monitor
\* A timer that calls startMonitoring with its own defaults
ScheduledCallDefaults(delay, lim, int) ==
  [delay |-> delay, limit |-> 50, interval |-> "1h"]

\* index.ts 280 and 285: setTimeout(() => startMonitoring(limit, interval), delay)
ScheduledCall(delay, lim, int) ==
  [delay |-> delay, limit |-> lim, interval |-> int]

\* index.ts 26: nothing is tracked, no cycle has run, no timer is set
NothingTracked ==
  /\ trackedSymbols = EmptyMap
  /\ analysisFile = EmptyMap
  /\ timer = 0
  /\ gainersList = EmptyGainers
  /\ results = [s \in Symbols |-> NoResult]
  /\ weakBullishSymbols = <<>>
  /\ confirmedDowntrendSymbols = <<>>
  /\ network = "none"
  /\ candles = [s \in Symbols |-> NoCandles]
  /\ thrown = "none"
  /\ newHigh = {}
  /\ confirmedSent = [s \in Symbols |-> 0]
  /\ weakSent = [s \in Symbols |-> 0]
  /\ savedTracking = NoSave
  /\ notifyLog = <<>>
  /\ pending = <<>>

IdleTracker ==
  /\ pc = "idle"
  /\ NothingTracked

\* The exchange lists one symbol
IdleMonitor ==
  /\ IdleTracker
  /\ listed = {1}

\* backtest/index.ts 18: runBacktest has not been called
IdleBacktest ==
  /\ btTracked = EmptyMap
  /\ uptrendFailureSignals = {}
  /\ downtrendConfirmedSignals = {}

\* runBacktest has not been called
IdleRun ==
  /\ btArgs = [startDate |-> NoDate, endDate |-> NoDate]
  /\ timeZone = 0
  /\ today = 2
  /\ endDate = NoDate
  /\ currentDate = 0
  /\ endDateObj = 0
  /\ btPc = "idle"
  /\ processedDays = <<>>
  /\ failureDays = [s \in Symbols |-> 0]
  /\ confirmedDays = [s \in Symbols |-> 0]

\* analyzeSymbols has not been called
IdleList ==
  /\ symbolInfos = <<>>
  /\ listPos = 0
  /\ listOutcomes = <<>>
  /\ listResults = <<>>
  /\ listPc = "idle"

\* withRetry has not been called
IdleRetry ==
  /\ retries = 0
  /\ delayMs = 0
  /\ attempt = 0
  /\ lastError = NoError
  /\ fnCalls = <<>>
  /\ delays = <<>>
  /\ retryPc = "idle"
  /\ retryValue = NoError

\* fetchHistoricalGainers has not been called
IdleBatches ==
  /\ hgPc = "idle"
  /\ hgTrading = 0
  /\ hgLimit = 0
  /\ hgStart = 0
  /\ hgChain = [s \in TradingSymbols |-> "none"]
  /\ hgBatchOf = [s \in TradingSymbols |-> {}]
  /\ hgBatches = 0
  /\ hgDelays = <<>>
  /\ gainersData = <<>>
  /\ sortedGainers = <<>>

\* No startMonitoring chain is followed one by one
IdleLoops ==
  /\ entry = "none"
  /\ loopPc = [l \in Loops |-> "off"]

\* No candle case has been analysed
IdlePipeline ==
  /\ sweepAt = 0
  /\ emitted = {}

\* No indicator function has been called
IdleArrays ==
  /\ indicatorFn = "none"
  /\ inputArray = <<>>
  /\ periodArg = 0
  /\ outputArray = <<>>
  /\ indicatorPc = "idle"

\* analyzeSymbol has not been called
IdleAnalyzer ==
  /\ indicators = NoIndicators
  /\ analysisResult = NoResult

Init ==
  /\ IdleMonitor
  /\ now = 1
  /\ args = DefaultArgs
  /\ limit = args.limit
  /\ interval = args.interval
  /\ IdleBacktest
  /\ IdleRun
  /\ IdleList
  /\ IdleRetry
  /\ IdleBatches
  /\ IdleLoops
  /\ IdlePipeline
  /\ IdleArrays
  /\ IdleAnalyzer

\* index.ts 50-77: the timer fires (or main calls), the history is restored
StartCycle ==
  /\ pc = "idle"
  /\ timer = 0 \/ pending # <<>>
  /\ IF pending = <<>>
     THEN UNCHANGED <<limit, interval, pending>>
     ELSE /\ limit' = Head(pending).limit
          /\ interval' = Head(pending).interval
          /\ pending' = Tail(pending)
  /\ \E d \in 0..1 :
       /\ now + d <= MaxTime
       /\ now' = now + d
       /\ \E readOk \in BOOLEAN :
            trackedSymbols' =
              Restore(trackedSymbols, loadHistoryAnalysis(analysisFile, readOk), now + d)
  /\ pc' = "fetch"
  /\ timer' = 0
  /\ thrown' = "none"
  /\ network' = "none"
  /\ newHigh' = {}
  /\ notifyLog' = <<>>
  /\ UNCHANGED <<listed, analysisFile, gainersList, results, weakBullishSymbols,
                 confirmedDowntrendSymbols, candles, confirmedSent, weakSent,
                 savedTracking, args>>
  /\ UNCHANGED otherVars

\* index.ts 80, 281-286: fetchGainersList throws, the cycle ends in the catch
FetchGainersThrows ==
  /\ pc = "fetch"
  /\ \E response \in TickerResponses(listed) :
       /\ fetchGainersList(response).threw
       /\ network' = IF response.ok THEN "ok" ELSE "error"
  /\ thrown' = "fetchGainersList"
  /\ pc' = "idle"
  /\ timer' = RetryDelay
  /\ pending' = Append(pending, ScheduledCall(RetryDelay, limit, interval))
  /\ UNCHANGED <<listed, trackedSymbols, analysisFile, now, gainersList, results,
                 weakBullishSymbols, confirmedDowntrendSymbols, candles, newHigh,
                 confirmedSent, weakSent, savedTracking, args, limit, interval, notifyLog>>
  /\ UNCHANGED otherVars

\* index.ts 80-117: the gainers arrive, the tracked map is updated
UpdateGainers ==
  /\ pc = "fetch"
  /\ \E response \in TickerResponses(listed) :
       LET r == fetchGainersList(response) IN
       /\ ~r.threw
       /\ network' = IF response.ok THEN "ok" ELSE "error"
       /\ gainersList' = r.value
       /\ trackedSymbols' = UpdateTracked(trackedSymbols, r.value, now)
       /\ newHigh' = {s \in Symbols : /\ r.value[s] # NoPrice
                                       /\ Has(trackedSymbols, s)
                                       /\ IsNewHigh(r.value[s], trackedSymbols[s])}
       /\ confirmedSent' =
            [s \in Symbols |->
               IF r.value[s] # NoPrice
                  /\ (~Has(trackedSymbols, s) \/ IsNewHigh(r.value[s], trackedSymbols[s]))
               THEN 0 ELSE confirmedSent[s]]
       /\ weakSent' =
            [s \in Symbols |->
               IF r.value[s] # NoPrice
                  /\ (~Has(trackedSymbols, s) \/ IsNewHigh(r.value[s], trackedSymbols[s]))
               THEN 0 ELSE weakSent[s]]
  /\ savedTracking' = NoSave
  /\ pc' = "analyze"
  /\ UNCHANGED <<listed, analysisFile, now, timer, results, weakBullishSymbols,
                 confirmedDowntrendSymbols, candles, thrown, args, limit, interval,
                 pending, notifyLog>>
  /\ UNCHANGED otherVars

\* index.ts 119-178: the tracked symbols are analysed, the results processed
Analyze ==
  /\ pc = "analyze"
  /\ \E outcomes \in [Symbols -> CandleOutcomes] :
       LET res == analyzeSymbols(SymbolsToAnalyze(trackedSymbols), outcomes) IN
       /\ \A s \in Symbols : ~Has(trackedSymbols, s) => outcomes[s] = NoCandles
       /\ candles' = outcomes
       /\ results' = res
       /\ trackedSymbols' = ProcessResults(trackedSymbols, res)
       /\ weakBullishSymbols' =
            Sort(Alerts(NumSymbols, WeakBullishSet(trackedSymbols, res),
                        trackedSymbols, res), "probability")
       /\ confirmedDowntrendSymbols' =
            Sort(Alerts(NumSymbols, ConfirmedDowntrendSet(trackedSymbols, res),
                        trackedSymbols, res), "drop")
  /\ pc' = "notify"
  /\ UNCHANGED <<listed, analysisFile, now, timer, gainersList, network, thrown, newHigh,
                 confirmedSent, weakSent, savedTracking, args, limit, interval, pending,
                 notifyLog>>
  /\ UNCHANGED otherVars

\* index.ts 187-208: one exhaustion notification is sent
NotifyWeakBullish ==
  /\ pc = "notify"
  /\ weakBullishSymbols # <<>>
  /\ weakBullishSymbols' = Tail(weakBullishSymbols)
  /\ notifyLog' = Append(notifyLog, Notification("weak", Head(weakBullishSymbols)))
  /\ weakSent' =
       [weakSent EXCEPT ![Head(weakBullishSymbols).symbol] =
          IF @ < MaxSent THEN @ + 1 ELSE @]
  /\ UNCHANGED <<listed, pc, trackedSymbols, analysisFile, now, timer, gainersList, results,
                 confirmedDowntrendSymbols, network, candles, thrown, newHigh,
                 confirmedSent, savedTracking, args, limit, interval, pending>>
  /\ UNCHANGED otherVars

\* index.ts 224-245: one confirmed-downtrend notification is sent
NotifyConfirmedDowntrend ==
  /\ pc = "notify"
  /\ weakBullishSymbols = <<>>
  /\ confirmedDowntrendSymbols # <<>>
  /\ confirmedDowntrendSymbols' = Tail(confirmedDowntrendSymbols)
  /\ notifyLog' =
       Append(notifyLog, Notification("confirmed", Head(confirmedDowntrendSymbols)))
  /\ confirmedSent' =
       [confirmedSent EXCEPT ![Head(confirmedDowntrendSymbols).symbol] =
          IF @ < MaxSent THEN @ + 1 ELSE @]
  /\ UNCHANGED <<listed, pc, trackedSymbols, analysisFile, now, timer, gainersList, results,
                 weakBullishSymbols, network, candles, thrown, newHigh, weakSent,
                 savedTracking, args, limit, interval, pending>>
  /\ UNCHANGED otherVars

\* index.ts 248-280: the state is saved, old symbols are dropped, the next
\* cycle is scheduled
SaveAndCleanup ==
  /\ pc = "notify"
  /\ weakBullishSymbols = <<>>
  /\ confirmedDowntrendSymbols = <<>>
  /\ \E writeOk \in BOOLEAN :
       analysisFile' = saveAnalysisResult(analysisFile, TrackingData(trackedSymbols), writeOk)
  /\ savedTracking' = TrackingData(trackedSymbols)
  /\ trackedSymbols' = Cleanup(trackedSymbols, now)
  /\ pc' = "idle"
  /\ timer' = NextCheckDelay
  /\ pending' = Append(pending, ScheduledCall(NextCheckDelay, limit, interval))
  /\ gainersList' = EmptyGainers
  /\ notifyLog' = <<>>
  /\ results' = [s \in Symbols |-> NoResult]
  /\ candles' = [s \in Symbols |-> NoCandles]
  /\ UNCHANGED <<listed, now, weakBullishSymbols, confirmedDowntrendSymbols, network, thrown,
                 newHigh, confirmedSent, weakSent, args, limit, interval>>
  /\ UNCHANGED otherVars

\* The process is stopped between two cycles and started again with the same
\* command line: the Map of index.ts 26 is empty again, the timers are gone,
\* main calls startMonitoring
Restart ==
  /\ pc = "idle"
  /\ trackedSymbols # EmptyMap
  /\ trackedSymbols' = EmptyMap
  /\ timer' = 0
  /\ pending' = <<>>
  /\ limit' = args.limit
  /\ interval' = args.interval
  /\ network' = "none"
  /\ thrown' = "none"
  /\ newHigh' = {}
  /\ UNCHANGED <<listed, pc, analysisFile, now, gainersList, results, weakBullishSymbols,
                 confirmedDowntrendSymbols, candles, confirmedSent, weakSent,
                 savedTracking, args, notifyLog>>
  /\ UNCHANGED otherVars

Next ==
  \/ StartCycle
  \/ FetchGainersThrows
  \/ UpdateGainers
  \/ Analyze
  \/ NotifyWeakBullish
  \/ NotifyConfirmedDowntrend
  \/ SaveAndCleanup
  \/ Restart

Spec == Init /\ [][Next]_vars

\* What earlier cycles can have left of one symbol: nothing, or an entry whose
\* lastPrice is at most its highestPrice, with no flag set, with downtrend
\* alone, with downtrendConfirmed and downtrendNotified, or with all three
LeftFlags ==
  {[downtrend |-> d, confirmed |-> c] : d \in BOOLEAN, c \in BOOLEAN}

LeftEntries ==
  {NoEntry}
  \cup {[lastPrice |-> l, highestPrice |-> h, lastUpdateTime |-> MaxTime,
          downtrend |-> f.downtrend, downtrendConfirmed |-> f.confirmed,
          downtrendNotified |-> f.confirmed] :
          l \in Prices, h \in Prices, f \in LeftFlags}

LeftMaps ==
  {m \in [Symbols -> LeftEntries] :
     \A s \in Symbols : Has(m, s) => m[s].lastPrice <= m[s].highestPrice}

\* index.ts 57-78: the exchange lists every symbol, and a cycle has just
\* restored what the cycle before it has saved
InitOrder ==
  /\ pc = "fetch"
  /\ trackedSymbols \in LeftMaps
  /\ analysisFile = TrackingData(trackedSymbols)
  /\ savedTracking = TrackingData(trackedSymbols)
  /\ listed = Symbols
  /\ now = MaxTime
  /\ timer = 0
  /\ pending = <<>>
  /\ gainersList = EmptyGainers
  /\ results = [s \in Symbols |-> NoResult]
  /\ weakBullishSymbols = <<>>
  /\ confirmedDowntrendSymbols = <<>>
  /\ network = "none"
  /\ candles = [s \in Symbols |-> NoCandles]
  /\ thrown = "none"
  /\ newHigh = {}
  /\ confirmedSent =
       [s \in Symbols |->
          IF Has(trackedSymbols, s) /\ trackedSymbols[s].downtrendNotified THEN 1 ELSE 0]
  /\ weakSent =
       [s \in Symbols |->
          IF Has(trackedSymbols, s) /\ trackedSymbols[s].downtrend THEN 1 ELSE 0]
  /\ notifyLog = <<>>
  /\ args = DefaultArgs
  /\ limit = args.limit
  /\ interval = args.interval
  /\ IdleBacktest
  /\ IdleRun
  /\ IdleList
  /\ IdleRetry
  /\ IdleBatches
  /\ IdleLoops
  /\ IdlePipeline
  /\ IdleArrays
  /\ IdleAnalyzer

\* One cycle from there to its end
NextOrder ==
  \/ FetchGainersThrows
  \/ UpdateGainers
  \/ Analyze
  \/ NotifyWeakBullish
  \/ NotifyConfirmedDowntrend
  \/ SaveAndCleanup

SpecOrder == InitOrder /\ [][NextOrder]_vars

\* ------------------------------------------- monitor and backtest, replayed
\* One monitoring cycle (index.ts 57-276, nothing failing) and one processDay
\* (backtest/index.ts 97-227) on the same gainers and the same candles.  The
\* alert queues and the signal sets keep what the step reported.
ReplayDay ==
  /\ pc = "idle"
  /\ \E g \in GainerLists(listed), outcomes \in [Symbols -> CandleOutcomes] :
       LET restored == Restore(trackedSymbols, loadHistoryAnalysis(analysisFile, TRUE), now)
           updated == UpdateTracked(restored, g, now)
           res == analyzeSymbols(SymbolsToAnalyze(updated), outcomes)
           processed == ProcessResults(updated, res)
           day == ProcessDayGainers(btTracked, g, now)
       IN /\ \A s \in Symbols : ~Has(updated, s) => outcomes[s] = NoCandles
          /\ gainersList' = g
          /\ candles' = outcomes
          /\ results' = res
          /\ weakBullishSymbols' =
               Sort(Alerts(NumSymbols, WeakBullishSet(updated, res), updated, res),
                    "probability")
          /\ confirmedDowntrendSymbols' =
               Sort(Alerts(NumSymbols, ConfirmedDowntrendSet(updated, res), updated, res),
                    "drop")
          /\ analysisFile' = saveAnalysisResult(analysisFile, TrackingData(processed), TRUE)
          /\ trackedSymbols' = Cleanup(processed, now)
          /\ uptrendFailureSignals' = UptrendFailureSet(day)
          /\ downtrendConfirmedSignals' = DowntrendConfirmedSet(day)
          /\ btTracked' = MarkNotified(day)
  /\ UNCHANGED <<pc, listed, now, timer, network, thrown, newHigh, confirmedSent, weakSent,
                 savedTracking, args, limit, interval, pending, notifyLog>>
  /\ UNCHANGED <<analyzerVars, runVars, listVars, retryVars, batchVars, loopVars, pipelineVars, arrayVars>>

NextReplay == ReplayDay

SpecReplay == Init /\ [][NextReplay]_vars

\* ---------------------------------------------------------- analyzeSymbols
\* The arrays analyzeSymbols is called with: symbol and lastPrice per place
SymbolLists ==
  UNION {[1..n -> [symbol : Symbols, lastPrice : Prices]] : n \in 0..MaxList}

\* What the body of the loop can come to for one place: fetchCandles throws,
\* fewer than 30 candles arrive, or analyzeSymbol returns a result, whose
\* price is the close of the last candle.  On 30 candles or more, each with
\* the numbers parseFloat gave, analyzeSymbol and the indicator functions
\* have nothing that throws.
ListOutcomes ==
  {[kind |-> k, close |-> NoPrice, probability |-> 0] :
     k \in {"fetchError", "short"}}
  \cup {[kind |-> "ok", close |-> c, probability |-> p] :
          c \in {19, 20}, p \in {0, ProbabilityThreshold}}

\* A loop body that leaves the price analyzeSymbol has set
AnalyzeItemKeepsClose(soFar, symbolInfo, outcome) ==
  IF outcome.kind = "ok"
  THEN Append(soFar, [symbol |-> symbolInfo.symbol, probability |-> outcome.probability,
                      price |-> outcome.close])
  ELSE soFar

\* analyzer.ts 31-47: the body of the loop for one place
AnalyzeItem(soFar, symbolInfo, outcome) ==
  IF outcome.kind = "ok"
  THEN Append(soFar, [symbol |-> symbolInfo.symbol, probability |-> outcome.probability,
                      price |-> symbolInfo.lastPrice])
  ELSE soFar

InitAnalyzeList ==
  /\ IdleMonitor
  /\ now = 1
  /\ args = DefaultArgs
  /\ limit = args.limit
  /\ interval = args.interval
  /\ IdleBacktest
  /\ IdleRun
  /\ IdleRetry
  /\ IdleBatches
  /\ IdleLoops
  /\ IdlePipeline
  /\ IdleArrays
  /\ IdleAnalyzer
  /\ symbolInfos \in SymbolLists
  /\ listPos = 0
  /\ listOutcomes = <<>>
  /\ listResults = <<>>
  /\ listPc = "idle"

\* analyzer.ts 24-28: analyzeSymbols is called
CallAnalyzeSymbols ==
  /\ listPc = "idle"
  /\ listPc' = "loop"
  /\ listPos' = 1
  /\ listResults' = <<>>
  /\ UNCHANGED <<symbolInfos, listOutcomes>>
  /\ UNCHANGED <<monitorVars, backtestVars, runVars, analyzerVars, retryVars, batchVars, loopVars, pipelineVars, arrayVars>>

\* analyzer.ts 30-48: one turn of the loop
AnalyzeNextSymbol ==
  /\ listPc = "loop"
  /\ listPos <= Len(symbolInfos)
  /\ \E outcome \in ListOutcomes :
       /\ listOutcomes' = Append(listOutcomes, outcome)
       /\ listResults' = AnalyzeItem(listResults, symbolInfos[listPos], outcome)
  /\ listPos' = listPos + 1
  /\ UNCHANGED <<symbolInfos, listPc>>
  /\ UNCHANGED <<monitorVars, backtestVars, runVars, analyzerVars, retryVars, batchVars, loopVars, pipelineVars, arrayVars>>

\* analyzer.ts 50: return results
ReturnResults ==
  /\ listPc = "loop"
  /\ listPos > Len(symbolInfos)
  /\ listPc' = "returned"
  /\ UNCHANGED <<symbolInfos, listPos, listOutcomes, listResults>>
  /\ UNCHANGED <<monitorVars, backtestVars, runVars, analyzerVars, retryVars, batchVars, loopVars, pipelineVars, arrayVars>>

NextAnalyzeList ==
  \/ CallAnalyzeSymbols
  \/ AnalyzeNextSymbol
  \/ ReturnResults

SpecAnalyzeList == InitAnalyzeList /\ [][NextAnalyzeList]_vars

\* --------------------------------------------------------------- withRetry
\* What a call of fn comes to: a value it resolves with, or an error it
\* rejects with; values and errors are told apart by an id
OutcomeIds == 1..2
FnOutcomes ==
  {[kind |-> "value", id |-> v] : v \in OutcomeIds}
  \cup {[kind |-> "error", id |-> e] : e \in OutcomeIds}

\* The values of delayMs: the default, and another one
DelayValues == {1000, 250}

\* A wait after every failed call
ShouldWaitEveryTime(i, n) == i < n

\* helpers.ts 66: i < retries - 1
ShouldWait(i, n) == i < n - 1

InitRetry ==
  /\ IdleMonitor
  /\ now = 1
  /\ args = DefaultArgs
  /\ limit = args.limit
  /\ interval = args.interval
  /\ IdleBacktest
  /\ IdleRun
  /\ IdleList
  /\ IdleBatches
  /\ IdleLoops
  /\ IdlePipeline
  /\ IdleArrays
  /\ IdleAnalyzer
  /\ retries \in 0..MaxRetries
  /\ delayMs \in DelayValues
  /\ attempt = 0
  /\ lastError = NoError
  /\ fnCalls = <<>>
  /\ delays = <<>>
  /\ retryPc = "idle"
  /\ retryValue = NoError

\* helpers.ts 52-59: withRetry is called
CallWithRetry ==
  /\ retryPc = "idle"
  /\ retryPc' = "loop"
  /\ attempt' = 0
  /\ lastError' = NoError
  /\ UNCHANGED <<retries, delayMs, fnCalls, delays, retryValue>>
  /\ UNCHANGED <<monitorVars, backtestVars, runVars, listVars, analyzerVars, batchVars, loopVars, pipelineVars, arrayVars>>

\* helpers.ts 59-61: fn is called and resolves, withRetry returns its value
FnResolves ==
  /\ retryPc = "loop"
  /\ attempt < retries
  /\ \E outcome \in FnOutcomes :
       /\ outcome.kind = "value"
       /\ fnCalls' = Append(fnCalls, outcome)
       /\ retryValue' = outcome
  /\ retryPc' = "returned"
  /\ UNCHANGED <<retries, delayMs, attempt, lastError, delays>>
  /\ UNCHANGED <<monitorVars, backtestVars, runVars, listVars, analyzerVars, batchVars, loopVars, pipelineVars, arrayVars>>

\* helpers.ts 59-69: fn is called and rejects
FnRejects ==
  /\ retryPc = "loop"
  /\ attempt < retries
  /\ \E outcome \in FnOutcomes :
       /\ outcome.kind = "error"
       /\ fnCalls' = Append(fnCalls, outcome)
       /\ lastError' = outcome
  /\ IF ShouldWait(attempt, retries)
     THEN /\ retryPc' = "wait"
          /\ delays' = Append(delays, [i |-> attempt, ms |-> delayMs])
          /\ UNCHANGED attempt
     ELSE /\ attempt' = attempt + 1
          /\ UNCHANGED <<retryPc, delays>>
  /\ UNCHANGED <<retries, delayMs, retryValue>>
  /\ UNCHANGED <<monitorVars, backtestVars, runVars, listVars, analyzerVars, batchVars, loopVars, pipelineVars, arrayVars>>

\* helpers.ts 67 and 59: the delay is over, i++
DelayEnds ==
  /\ retryPc = "wait"
  /\ retryPc' = "loop"
  /\ attempt' = attempt + 1
  /\ UNCHANGED <<retries, delayMs, lastError, fnCalls, delays, retryValue>>
  /\ UNCHANGED <<monitorVars, backtestVars, runVars, listVars, analyzerVars, batchVars, loopVars, pipelineVars, arrayVars>>

\* helpers.ts 72: throw lastError
ThrowLastError ==
  /\ retryPc = "loop"
  /\ attempt >= retries
  /\ retryPc' = "threw"
  /\ retryValue' = lastError
  /\ UNCHANGED <<retries, delayMs, attempt, lastError, fnCalls, delays>>
  /\ UNCHANGED <<monitorVars, backtestVars, runVars, listVars, analyzerVars, batchVars, loopVars, pipelineVars, arrayVars>>

NextRetry ==
  \/ CallWithRetry
  \/ FnResolves
  \/ FnRejects
  \/ DelayEnds
  \/ ThrowLastError

SpecRetry == InitRetry /\ [][NextRetry]_vars

\* -------------------------------------------------- fetchHistoricalGainers
\* The TRADING symbols are 1..hgTrading in the order of exchangeInfo; the
\* change of a symbol over the day, in percent: neither ascending nor
\* descending in that order, and equal for some pairs
ChangeOf(s) == (s * 3) % 5

\* A chunk of one symbol more
ChunkEleven(i, n) == {s \in TradingSymbols : s > i /\ s <= i + chunkSize + 1 /\ s <= n}

\* binance.ts 185: symbols.slice(i, i + chunkSize), i counted from 0
Chunk(i, n) == {s \in TradingSymbols : s > i /\ s <= i + chunkSize /\ s <= n}

\* The last symbol of that slice
ChunkEnd(i, n) == IF i + chunkSize < n THEN i + chunkSize ELSE n

\* binance.ts 240-241: the results of Promise.all in the order of the chunk,
\* those that are null left out
RECURSIVE ChunkItems(_, _, _)
ChunkItems(s, last, chain) ==
  IF s > last THEN <<>>
  ELSE (IF chain[s] = "item"
        THEN <<[symbol |-> s, priceChangePercent |-> ChangeOf(s)]>>
        ELSE <<>>) \o ChunkItems(s + 1, last, chain)

\* Array.prototype.slice(0, n)
SliceTo(seq, n) == SubSeq(seq, 1, IF Len(seq) < n THEN Len(seq) ELSE n)

InitBatches ==
  /\ IdleMonitor
  /\ now = 1
  /\ args = DefaultArgs
  /\ limit = args.limit
  /\ interval = args.interval
  /\ IdleBacktest
  /\ IdleRun
  /\ IdleList
  /\ IdleRetry
  /\ IdleLoops
  /\ IdlePipeline
  /\ IdleArrays
  /\ IdleAnalyzer
  /\ hgPc = "idle"
  /\ hgTrading \in 0..MaxTrading
  /\ hgLimit \in HistoricalLimits
  /\ hgStart = 0
  /\ hgChain = [s \in TradingSymbols |-> "none"]
  /\ hgBatchOf = [s \in TradingSymbols |-> {}]
  /\ hgBatches = 0
  /\ hgDelays = <<>>
  /\ gainersData = <<>>
  /\ sortedGainers = <<>>

\* binance.ts 149-165: fetchHistoricalGainers is called and asks for exchangeInfo
CallFetchHistoricalGainers ==
  /\ hgPc = "idle"
  /\ hgPc' = "exchangeInfo"
  /\ UNCHANGED <<hgTrading, hgLimit, hgStart, hgChain, hgBatchOf, hgBatches, hgDelays,
                 gainersData, sortedGainers>>
  /\ UNCHANGED <<monitorVars, backtestVars, runVars, listVars, retryVars, analyzerVars, loopVars, pipelineVars, arrayVars>>

\* binance.ts 165-182: exchangeInfo arrives, the TRADING symbols are taken
ExchangeInfoArrives ==
  /\ hgPc = "exchangeInfo"
  /\ hgPc' = "loop"
  /\ hgStart' = 0
  /\ gainersData' = <<>>
  /\ UNCHANGED <<hgTrading, hgLimit, hgChain, hgBatchOf, hgBatches, hgDelays, sortedGainers>>
  /\ UNCHANGED <<monitorVars, backtestVars, runVars, listVars, retryVars, analyzerVars, loopVars, pipelineVars, arrayVars>>

\* binance.ts 165-168 and 261-266: the request fails, the catch goes on to
\* fetchGainersList
ExchangeInfoFails ==
  /\ hgPc = "exchangeInfo"
  /\ hgPc' = "fallback"
  /\ UNCHANGED <<hgTrading, hgLimit, hgStart, hgChain, hgBatchOf, hgBatches, hgDelays,
                 gainersData, sortedGainers>>
  /\ UNCHANGED <<monitorVars, backtestVars, runVars, listVars, retryVars, analyzerVars, loopVars, pipelineVars, arrayVars>>

\* binance.ts 184-238: the chunk is taken and chunk.map starts one chain for
\* each of its symbols, all in the same turn
StartBatch ==
  /\ hgPc = "loop"
  /\ hgStart < hgTrading
  /\ hgPc' = "await"
  /\ hgBatches' = hgBatches + 1
  /\ hgChain' = [s \in TradingSymbols |->
                   IF s \in Chunk(hgStart, hgTrading) THEN "inflight" ELSE hgChain[s]]
  /\ hgBatchOf' = [s \in TradingSymbols |->
                     IF s \in Chunk(hgStart, hgTrading)
                     THEN hgBatchOf[s] \cup {hgBatches'} ELSE hgBatchOf[s]]
  /\ UNCHANGED <<hgTrading, hgLimit, hgStart, hgDelays, gainersData, sortedGainers>>
  /\ UNCHANGED <<monitorVars, backtestVars, runVars, listVars, retryVars, analyzerVars, loopVars, pipelineVars, arrayVars>>

\* binance.ts 188-231: the chain of one symbol comes to its item
ChainResolves ==
  /\ hgPc = "await"
  /\ \E s \in TradingSymbols :
       /\ hgChain[s] = "inflight"
       /\ hgChain' = [hgChain EXCEPT ![s] = "item"]
  /\ UNCHANGED <<hgPc, hgTrading, hgLimit, hgStart, hgBatchOf, hgBatches, hgDelays,
                 gainersData, sortedGainers>>
  /\ UNCHANGED <<monitorVars, backtestVars, runVars, listVars, retryVars, analyzerVars, loopVars, pipelineVars, arrayVars>>

\* binance.ts 202-204, 215-217 and 232-235: the chain of one symbol comes to
\* null: no candle for the day or the day before, or a request that failed,
\* which is caught and logged
ChainDrops ==
  /\ hgPc = "await"
  /\ \E s \in TradingSymbols :
       /\ hgChain[s] = "inflight"
       /\ hgChain' = [hgChain EXCEPT ![s] = "null"]
  /\ UNCHANGED <<hgPc, hgTrading, hgLimit, hgStart, hgBatchOf, hgBatches, hgDelays,
                 gainersData, sortedGainers>>
  /\ UNCHANGED <<monitorVars, backtestVars, runVars, listVars, retryVars, analyzerVars, loopVars, pipelineVars, arrayVars>>

\* binance.ts 240-246: Promise.all resolves when every chain of the chunk has
\* settled; the items are pushed and the timer is set
BatchSettles ==
  /\ hgPc = "await"
  /\ \A s \in TradingSymbols : hgChain[s] # "inflight"
  /\ gainersData' =
       gainersData \o ChunkItems(hgStart + 1, ChunkEnd(hgStart, hgTrading), hgChain)
  /\ hgPc' = "delay"
  /\ UNCHANGED <<hgTrading, hgLimit, hgStart, hgChain, hgBatchOf, hgBatches, hgDelays,
                 sortedGainers>>
  /\ UNCHANGED <<monitorVars, backtestVars, runVars, listVars, retryVars, analyzerVars, loopVars, pipelineVars, arrayVars>>

\* binance.ts 246 and 184: the timer fires, i += chunkSize
DelayElapses ==
  /\ hgPc = "delay"
  /\ hgDelays' = Append(hgDelays, [after |-> hgBatches, ms |-> BatchDelay])
  /\ hgStart' = hgStart + chunkSize
  /\ hgPc' = "loop"
  /\ UNCHANGED <<hgTrading, hgLimit, hgChain, hgBatchOf, hgBatches, gainersData,
                 sortedGainers>>
  /\ UNCHANGED <<monitorVars, backtestVars, runVars, listVars, retryVars, analyzerVars, loopVars, pipelineVars, arrayVars>>

\* binance.ts 184 and 249-259: the loop is over, sort, slice and return
ReturnSortedGainers ==
  /\ hgPc = "loop"
  /\ hgStart >= hgTrading
  /\ sortedGainers' = SliceTo(Sort(gainersData, "change"), hgLimit)
  /\ hgPc' = "returned"
  /\ UNCHANGED <<hgTrading, hgLimit, hgStart, hgChain, hgBatchOf, hgBatches, hgDelays,
                 gainersData>>
  /\ UNCHANGED <<monitorVars, backtestVars, runVars, listVars, retryVars, analyzerVars, loopVars, pipelineVars, arrayVars>>

NextBatches ==
  \/ CallFetchHistoricalGainers
  \/ ExchangeInfoArrives
  \/ ExchangeInfoFails
  \/ StartBatch
  \/ ChainResolves
  \/ ChainDrops
  \/ BatchSettles
  \/ DelayElapses
  \/ ReturnSortedGainers

SpecBatches == InitBatches /\ [][NextBatches]_vars

\* ------------------------------------------------------------- runBacktest
\* new Date('yyyy-MM-dd'): a date without a time is midnight UTC of that day
ParseDate(day) == day * HoursPerDay

\* format(date, 'yyyy-MM-dd') of @std/datetime: the calendar day of the instant
\* in the local time zone
FormatDate(instant, zone) == (instant + zone) \div HoursPerDay

\* date.setDate(date.getDate() + k): k local days later, at the same local
\* time (no change of daylight saving time in between)
AddDays(instant, k) == instant + k * HoursPerDay

\* backtest/index.ts 117 and 160-170: the gainers that make a new high that
\* day, or are tracked for the first time
StartsAfresh(map, gainers) ==
  {s \in Symbols : /\ gainers[s] # NoPrice
                   /\ (~Has(map, s) \/ gainers[s] > map[s].highestPrice)}

\* The days a symbol was reported on since its last new high, one more if it
\* is among the reported, counted up to MaxSent
ReportedDays(count, afresh, reported) ==
  [s \in Symbols |->
     LET base == IF s \in afresh THEN 0 ELSE count[s]
     IN IF s \in reported /\ base < MaxSent THEN base + 1 ELSE base]

\* index.ts 331-347: main calls runBacktest(startDate, endDate, interval) with
\* the dates of the command line; --end-date may be left out
BacktestCalled ==
  /\ btArgs \in [startDate : BacktestDays, endDate : BacktestDays \cup {NoDate}]
  /\ timeZone \in TimeZones
  /\ today \in {d \in BacktestDays : d >= btArgs.startDate}
  /\ endDate = btArgs.endDate
  /\ currentDate = 0
  /\ endDateObj = 0
  /\ btPc = "called"
  /\ processedDays = <<>>
  /\ failureDays = [s \in Symbols |-> 0]
  /\ confirmedDays = [s \in Symbols |-> 0]

InitBacktest ==
  /\ IdleMonitor
  /\ now = 1
  /\ args = DefaultArgs
  /\ limit = args.limit
  /\ interval = args.interval
  /\ IdleBacktest
  /\ IdleList
  /\ IdleRetry
  /\ IdleBatches
  /\ IdleLoops
  /\ IdlePipeline
  /\ IdleArrays
  /\ IdleAnalyzer
  /\ BacktestCalled

\* backtest/index.ts 41-58: the default of endDate, the Map is cleared, the
\* two Date objects are made
RunBacktest ==
  /\ btPc = "called"
  /\ endDate' = IF btArgs.endDate = NoDate
                THEN FormatDate(AddDays(ParseDate(btArgs.startDate), DefaultBacktestDays),
                                timeZone)
                ELSE btArgs.endDate
  /\ btTracked' = EmptyMap
  /\ currentDate' = ParseDate(btArgs.startDate)
  /\ endDateObj' = ParseDate(endDate')
  /\ btPc' = "loop"
  /\ UNCHANGED <<btArgs, timeZone, today, processedDays, failureDays, confirmedDays,
                 uptrendFailureSignals, downtrendConfirmedSignals>>
  /\ UNCHANGED <<monitorVars, analyzerVars, listVars, retryVars, batchVars, loopVars, pipelineVars, arrayVars>>

\* backtest/index.ts 60-81: one turn of the loop, processDay (97-227) included
ProcessDay ==
  /\ btPc = "loop"
  /\ currentDate <= endDateObj
  /\ \E g \in GainerLists(listed) :
       LET dateStr == FormatDate(currentDate, timeZone)
           day == ProcessDayGainers(btTracked, g, dateStr)
       IN /\ processedDays' = Append(processedDays, dateStr)
          /\ uptrendFailureSignals' = UptrendFailureSet(day)
          /\ downtrendConfirmedSignals' = DowntrendConfirmedSet(day)
          /\ btTracked' = MarkNotified(day)
          /\ failureDays' =
               ReportedDays(failureDays, StartsAfresh(btTracked, g), UptrendFailureSet(day))
          /\ confirmedDays' =
               ReportedDays(confirmedDays, StartsAfresh(btTracked, g),
                            DowntrendConfirmedSet(day))
  /\ currentDate' = AddDays(currentDate, 1)
  /\ UNCHANGED <<btArgs, timeZone, today, endDate, endDateObj, btPc>>
  /\ UNCHANGED <<monitorVars, analyzerVars, listVars, retryVars, batchVars, loopVars, pipelineVars, arrayVars>>

\* backtest/index.ts 64 and 85-87: fetchHistoricalGainers falls back on
\* fetchGainersList (binance.ts 266), which throws; the catch ends the run
BacktestFetchThrows ==
  /\ btPc = "loop"
  /\ currentDate <= endDateObj
  /\ btPc' = "failed"
  /\ UNCHANGED <<btArgs, timeZone, today, endDate, currentDate, endDateObj, processedDays,
                 failureDays, confirmedDays>>
  /\ UNCHANGED <<monitorVars, backtestVars, analyzerVars, listVars, retryVars, batchVars, loopVars, pipelineVars, arrayVars>>

\* backtest/index.ts 60 and 84: currentDate has passed endDateObj
BacktestEnds ==
  /\ btPc = "loop"
  /\ currentDate > endDateObj
  /\ btPc' = "done"
  /\ UNCHANGED <<btArgs, timeZone, today, endDate, currentDate, endDateObj, processedDays,
                 failureDays, confirmedDays>>
  /\ UNCHANGED <<monitorVars, backtestVars, analyzerVars, listVars, retryVars, batchVars, loopVars, pipelineVars, arrayVars>>

NextBacktest ==
  \/ RunBacktest
  \/ ProcessDay
  \/ BacktestFetchThrows
  \/ BacktestEnds

SpecBacktest == InitBacktest /\ [][NextBacktest]_vars

\* ----------------------------------------------- main: monitor or backtest
\* index.ts 322-347: with --mode=monitor main calls startMonitoring, with
\* --mode=backtest it calls runBacktest and startMonitoring is never called
InitMain ==
  \/ Init
  \/ /\ pc = "off"
     /\ NothingTracked
     /\ listed = {1}
     /\ now = 1
     /\ args = DefaultArgs
     /\ limit = args.limit
     /\ interval = args.interval
     /\ IdleBacktest
     /\ IdleList
     /\ IdleRetry
     /\ IdleBatches
     /\ IdleLoops
     /\ IdlePipeline
     /\ IdleArrays
     /\ IdleAnalyzer
     /\ BacktestCalled

NextMain ==
  \/ Next
  \/ NextBacktest

SpecMain == InitMain /\ [][NextMain]_vars

\* ------------------------------------------------ the program, as started
\* index.ts 355-359 calls main() whenever the module is evaluated, and main
\* (318-330) calls startMonitoring; main.ts 9 imports the module and main.ts 14
\* calls startMonitoring itself.  The chain "index.ts" is the one main()
\* starts, the chain "main.ts" the one main.ts starts.
StartedChains(e) == IF e = "main.ts" THEN Loops ELSE {"index.ts"}

\* The cycles in flight: called, and not yet at their setTimeout
CyclesInFlight == {l \in Loops : loopPc[l] \notin {"off", "idle"}}

InitProgram ==
  /\ pc = "off"
  /\ NothingTracked
  /\ listed = {1}
  /\ now = 1
  /\ args = DefaultArgs
  /\ limit = args.limit
  /\ interval = args.interval
  /\ IdleBacktest
  /\ IdleRun
  /\ IdleList
  /\ IdleRetry
  /\ IdleBatches
  /\ IdlePipeline
  /\ IdleArrays
  /\ IdleAnalyzer
  /\ entry \in Entries
  /\ loopPc = [l \in Loops |-> IF l \in StartedChains(entry) THEN "idle" ELSE "off"]

\* What a step of a chain leaves alone
ChainFrame ==
  /\ UNCHANGED <<pc, listed, now, timer, gainersList, results, weakBullishSymbols,
                 confirmedDowntrendSymbols, network, candles, thrown, newHigh,
                 confirmedSent, weakSent, savedTracking, notifyLog, args, limit, interval,
                 pending, entry>>
  /\ UNCHANGED <<backtestVars, analyzerVars, runVars, listVars, retryVars, batchVars,
                 pipelineVars, arrayVars>>

\* index.ts 50-57: startMonitoring is called, by main, by main.ts or by its
\* timer, and awaits loadHistoryAnalysis
ChainCalled(l) ==
  /\ loopPc[l] = "idle"
  /\ loopPc' = [loopPc EXCEPT ![l] = "load"]
  /\ UNCHANGED <<trackedSymbols, analysisFile>>
  /\ ChainFrame

\* index.ts 57-77: the history arrives and replaces the entries of the Map
ChainRestores(l) ==
  /\ loopPc[l] = "load"
  /\ \E readOk \in BOOLEAN :
       trackedSymbols' =
         Restore(trackedSymbols, loadHistoryAnalysis(analysisFile, readOk), now)
  /\ loopPc' = [loopPc EXCEPT ![l] = "fetch"]
  /\ UNCHANGED analysisFile
  /\ ChainFrame

\* index.ts 80 and 281-286: fetchGainersList throws, the catch sets the timer
ChainFetchThrows(l) ==
  /\ loopPc[l] = "fetch"
  /\ loopPc' = [loopPc EXCEPT ![l] = "idle"]
  /\ UNCHANGED <<trackedSymbols, analysisFile>>
  /\ ChainFrame

\* index.ts 80-127: the gainers arrive, the Map is updated, analyzeSymbols is
\* awaited
ChainUpdates(l) ==
  /\ loopPc[l] = "fetch"
  /\ \E g \in GainerLists(listed) :
       trackedSymbols' = UpdateTracked(trackedSymbols, g, now)
  /\ loopPc' = [loopPc EXCEPT ![l] = "analyze"]
  /\ UNCHANGED analysisFile
  /\ ChainFrame

\* index.ts 127-260: the results arrive and are processed, the notifications
\* are sent, saveAnalysisResult is awaited with the trackingData of the Map
\* as it stands after the last notification
ChainAnalyzes(l) ==
  /\ loopPc[l] = "analyze"
  /\ \E outcomes \in [Symbols -> CandleOutcomes] :
       /\ \A s \in Symbols : ~Has(trackedSymbols, s) => outcomes[s] = NoCandles
       /\ trackedSymbols' =
            ProcessResults(trackedSymbols,
                           analyzeSymbols(SymbolsToAnalyze(trackedSymbols), outcomes))
  /\ loopPc' = [loopPc EXCEPT ![l] = "save"]
  /\ UNCHANGED analysisFile
  /\ ChainFrame

\* index.ts 260-280: the file is written, old symbols are dropped, the timer
\* is set
ChainSaves(l) ==
  /\ loopPc[l] = "save"
  /\ \E writeOk \in BOOLEAN :
       analysisFile' = saveAnalysisResult(analysisFile, TrackingData(trackedSymbols), writeOk)
  /\ trackedSymbols' = Cleanup(trackedSymbols, now)
  /\ loopPc' = [loopPc EXCEPT ![l] = "idle"]
  /\ ChainFrame

NextProgram ==
  \/ \E l \in Loops : ChainCalled(l)
  \/ \E l \in Loops : ChainRestores(l)
  \/ \E l \in Loops : ChainFetchThrows(l)
  \/ \E l \in Loops : ChainUpdates(l)
  \/ \E l \in Loops : ChainAnalyzes(l)
  \/ \E l \in Loops : ChainSaves(l)

SpecProgram == InitProgram /\ [][NextProgram]_vars

\* ------------------------------------------------------ monitor, scheduling
\* The monitor started with any command line, at the last instant that is
\* counted: the clock stands still and no timestamp differs from another
InitSchedule ==
  /\ IdleMonitor
  /\ now = MaxTime
  /\ args \in [limit : Limits, interval : Intervals]
  /\ limit = args.limit
  /\ interval = args.interval
  /\ IdleBacktest
  /\ IdleRun
  /\ IdleList
  /\ IdleRetry
  /\ IdleBatches
  /\ IdleLoops
  /\ IdlePipeline
  /\ IdleArrays
  /\ IdleAnalyzer

\* index.ts 80-280 in one step: the gainers arrive, the cycle runs to its end
\* and schedules the next one
CompleteCycle ==
  /\ pc = "fetch"
  /\ \E response \in TickerResponses(listed) :
       LET r == fetchGainersList(response)
           updated == UpdateTracked(trackedSymbols, r.value, now)
       IN /\ ~r.threw
          /\ network' = IF response.ok THEN "ok" ELSE "error"
          /\ \E outcomes \in {o \in [Symbols -> CandleOutcomes] :
                                 \A s \in Symbols : ~Has(updated, s) => o[s] = NoCandles} :
               LET res == analyzeSymbols(SymbolsToAnalyze(updated), outcomes)
                   processed == ProcessResults(updated, res)
               IN /\ savedTracking' = TrackingData(processed)
                  /\ trackedSymbols' = Cleanup(processed, now)
                  /\ \E writeOk \in BOOLEAN :
                       analysisFile' = saveAnalysisResult(analysisFile, savedTracking', writeOk)
  /\ pc' = "idle"
  /\ timer' = NextCheckDelay
  /\ pending' = Append(pending, ScheduledCall(NextCheckDelay, limit, interval))
  /\ UNCHANGED <<listed, now, gainersList, results, weakBullishSymbols,
                 confirmedDowntrendSymbols, candles, thrown, newHigh, confirmedSent,
                 weakSent, args, limit, interval, notifyLog>>
  /\ UNCHANGED otherVars

NextSchedule ==
  \/ StartCycle
  \/ FetchGainersThrows
  \/ CompleteCycle
  \/ Restart

\* A timer that is due fires, and the awaits of a running cycle come back
SpecSchedule ==
  /\ InitSchedule
  /\ [][NextSchedule]_vars
  /\ WF_vars(StartCycle)
  /\ WF_vars(FetchGainersThrows \/ CompleteCycle)

\* ----------------------------------------------------------------- analyzer
\* Numbers of analyzeSymbol are exact fractions n / d with d > 0.
Frac(n, d) == [n |-> n, d |-> d]
FAdd(a, b) == Frac(a.n * b.d + b.n * a.d, a.d * b.d)
FMul(a, b) == Frac(a.n * b.n, a.d * b.d)
FGreater(a, k) == a.n > k * a.d
\* Math.min(100, a)
FMin100(a) == IF FGreater(a, 100) THEN Frac(100, 1) ELSE a

\* The first index at which an indicator array holds a number: calculateRSI
\* pads period = 14 places, calculateMA period - 1, calculateEMA period - 1;
\* the MACD line needs the slow EMA (26), its signal line 9 MACD values
MA50First == 49
MA200First == 199
SlowPeriod == 26
SignalPeriod == 9
SignalFirst == (SlowPeriod - 1) + (SignalPeriod - 1)

\* The inputs of the scoring: the number of candles and, for the last candle
\* and the one before, what the indicators come to.  A comparison with a
\* place that holds no number is false.
CandleCounts == {30, 34, 35, 51, 100, 201}
BandWidths == {0, 10}
BandDevs == {-10, 0, 8, 9, 10, 12}

IndicatorInputs ==
  {i \in [length : CandleCounts,
          avgGain : 0..MaxAvg, avgLoss : 0..MaxAvg,
          bandDev : BandDevs, bandWidth : BandWidths,
          macdBelow : BOOLEAN, macdPrevAbove : BOOLEAN,
          ma20Below : BOOLEAN, ma20PrevAbove : BOOLEAN,
          closeBelowMA200 : BOOLEAN, prevAboveMA200 : BOOLEAN,
          volumeUp : BOOLEAN, priceFlat : BOOLEAN] :
     /\ i.bandWidth = 0 => i.bandDev = 0
     /\ i.macdBelow => i.length - 1 >= SignalFirst
     /\ i.macdPrevAbove => i.length - 2 >= SignalFirst
     /\ i.ma20Below => i.length - 1 >= MA50First
     /\ i.ma20PrevAbove => i.length - 2 >= MA50First
     /\ i.closeBelowMA200 => i.length - 1 >= MA200First
     /\ i.prevAboveMA200 => i.length - 2 >= MA200First}

\* technical.ts calculateRSI: 100 when losses are 0, else 100 - 100 / (1 + gains / losses)
RSI(avgGain, avgLoss) ==
  IF avgLoss = 0 THEN Frac(100, 1) ELSE Frac(100 * avgGain, avgGain + avgLoss)

\* analyzer.ts 88: Math.min(100, (rsi - 70) * 3.33)
RSIStrength(rsi) == FMin100(FMul(FAdd(rsi, Frac(-70, 1)), Frac(333, 100)))

\* priceToUpperRatio * 100 without Math.min
BandStrengthUncapped(ratio) == FMul(ratio, Frac(100, 1))

\* analyzer.ts 102: Math.min(100, priceToUpperRatio * 100)
BandStrength(ratio) == FMin100(FMul(ratio, Frac(100, 1)))

\* analyzer.ts 86-163: the signals, in the order of the six checks
Signals(i) ==
  LET rsi == RSI(i.avgGain, i.avgLoss) IN
  (IF FGreater(rsi, 70)
   THEN <<[name |-> "RSI", strength |-> RSIStrength(rsi)]>> ELSE <<>>)
  \o (IF i.bandWidth # 0 /\ i.bandDev * 10 > 8 * i.bandWidth
      THEN <<[name |-> "Bollinger",
              strength |-> BandStrength(Frac(i.bandDev, i.bandWidth))]>> ELSE <<>>)
  \o (IF i.macdBelow /\ i.macdPrevAbove
      THEN <<[name |-> "MACD", strength |-> Frac(90, 1)]>> ELSE <<>>)
  \o (IF i.ma20Below /\ i.ma20PrevAbove
      THEN <<[name |-> "MA", strength |-> Frac(85, 1)]>> ELSE <<>>)
  \o (IF i.closeBelowMA200 /\ i.prevAboveMA200
      THEN <<[name |-> "MA200", strength |-> Frac(80, 1)]>> ELSE <<>>)
  \o (IF i.volumeUp /\ i.priceFlat
      THEN <<[name |-> "Volume", strength |-> Frac(75, 1)]>> ELSE <<>>)

RECURSIVE TotalWeight(_)
TotalWeight(signals) ==
  IF signals = <<>> THEN Frac(0, 1)
  ELSE FAdd(signals[1].strength, TotalWeight(Tail(signals)))

\* A factor 1.2 that needs three signals
ProbabilityBoostFromThree(signals) ==
  IF signals = <<>> THEN Frac(0, 1)
  ELSE LET average == FMin100(FMul(TotalWeight(signals), Frac(1, Len(signals))))
       IN IF Len(signals) >= 3 THEN FMin100(FMul(average, Frac(12, 10))) ELSE average

\* analyzer.ts 166-176
Probability(signals) ==
  IF signals = <<>> THEN Frac(0, 1)
  ELSE LET average == FMin100(FMul(TotalWeight(signals), Frac(1, Len(signals))))
       IN IF Len(signals) >= 2 THEN FMin100(FMul(average, Frac(12, 10))) ELSE average

\* analyzer.ts 60-187
analyzeSymbol(i) ==
  [probability |-> Probability(Signals(i)), signals |-> Signals(i)]

InitAnalyzer ==
  /\ IdleMonitor
  /\ now = 1
  /\ args = DefaultArgs
  /\ limit = args.limit
  /\ interval = args.interval
  /\ IdleBacktest
  /\ IdleRun
  /\ IdleList
  /\ IdleRetry
  /\ IdleBatches
  /\ IdleLoops
  /\ IdlePipeline
  /\ IdleArrays
  /\ indicators \in IndicatorInputs
  /\ analysisResult = NoResult

\* analyzer.ts 60-187: analyzeSymbol is called on the candles
AnalyzeSymbol ==
  /\ analysisResult = NoResult
  /\ indicators # NoIndicators
  /\ analysisResult' = analyzeSymbol(indicators)
  /\ UNCHANGED <<monitorVars, backtestVars, runVars, listVars, retryVars, batchVars, loopVars, pipelineVars, arrayVars, indicators>>

NextAnalyzer == AnalyzeSymbol

SpecAnalyzer == InitAnalyzer /\ [][NextAnalyzer]_vars

\* ----------------------------------------------------------------- pipeline
\* analyzer.ts 33: analyzeSymbols fetches with limit 100
FetchLimit == 100

\* The candle cases analyzeSymbols can hand to analyzeSymbol, numbered by the
\* number of candles and the average gain
PipelineCases == (FetchLimit - MinCandles + 1) * (MaxAvg + 1)
CaseLength(k) == MinCandles + (k \div (MaxAvg + 1))
CaseAvgGain(k) == k % (MaxAvg + 1)

\* Every value of the other indicators that a candle sequence of case k can
\* give.  A comparison with a place that holds no number is false.
CaseInputs(k) ==
  {i \in [length : {CaseLength(k)},
          avgGain : {CaseAvgGain(k)}, avgLoss : 0..MaxAvg,
          bandDev : BandDevs, bandWidth : BandWidths,
          macdBelow : BOOLEAN, macdPrevAbove : BOOLEAN,
          ma20Below : BOOLEAN, ma20PrevAbove : BOOLEAN,
          closeBelowMA200 : BOOLEAN, prevAboveMA200 : BOOLEAN,
          volumeUp : BOOLEAN, priceFlat : BOOLEAN] :
     /\ i.bandWidth = 0 => i.bandDev = 0
     /\ i.macdBelow => i.length - 1 >= SignalFirst
     /\ i.macdPrevAbove => i.length - 2 >= SignalFirst
     /\ i.ma20Below => i.length - 1 >= MA50First
     /\ i.ma20PrevAbove => i.length - 2 >= MA50First
     /\ i.closeBelowMA200 => i.length - 1 >= MA200First
     /\ i.prevAboveMA200 => i.length - 2 >= MA200First}

\* The names of the signals of a result
SignalNames(signals) == {signals[j].name : j \in 1..Len(signals)}

InitPipeline ==
  /\ IdleMonitor
  /\ now = 1
  /\ args = DefaultArgs
  /\ limit = args.limit
  /\ interval = args.interval
  /\ IdleBacktest
  /\ IdleRun
  /\ IdleList
  /\ IdleRetry
  /\ IdleBatches
  /\ IdleLoops
  /\ IdleArrays
  /\ IdleAnalyzer
  /\ sweepAt = 0
  /\ emitted = {}

\* analyzer.ts 30-39: analyzeSymbol is called on the candles of the next case
AnalyzeCase ==
  /\ sweepAt < PipelineCases
  /\ emitted' = emitted \cup
                 UNION {SignalNames(analyzeSymbol(i).signals) : i \in CaseInputs(sweepAt)}
  /\ sweepAt' = sweepAt + 1
  /\ UNCHANGED <<monitorVars, backtestVars, analyzerVars, runVars, listVars, retryVars,
                 batchVars, loopVars, arrayVars>>

NextPipeline == AnalyzeCase

SpecPipeline == InitPipeline /\ [][NextPipeline]_vars

\* --------------------------------------------------------------- indicators
\* The places of an indicator array hold a number ("num"), NaN or null.  The
\* candles and the data passed in hold numbers.
MaxCandles == 40
RSIPeriod == 14
FastPeriod == 12
Periods == {SignalPeriod, FastPeriod, RSIPeriod, SlowPeriod}
IndicatorFns == {"calculateRSI", "calculateEMA"}

\* Array(n).fill(v)
Filled(n, v) == [j \in 1..n |-> v]
NumberArrays == {Filled(n, "num") : n \in 0..MaxCandles}

\* part_001 228-280: [] below period + 1 candles, else period nulls and one
\* value for each candle from index period on
calculateRSI(candleArray, p) ==
  IF Len(candleArray) < p + 1 THEN <<>>
  ELSE Filled(p, "null") \o Filled(Len(candleArray) - p, "num")

\* part_001 321-326: the average of data[0] .. data[period - 1], NaN when one
\* of these places is past the end of data
FirstEMA(values, p) == IF Len(values) >= p THEN "num" ELSE "NaN"

\* part_001 319-331: the array ema, its first value and one more for each
\* index from period to data.length - 1
EMAValues(values, p) ==
  <<FirstEMA(values, p)>>
  \o Filled(IF Len(values) > p THEN Len(values) - p ELSE 0, FirstEMA(values, p))

\* calculateEMA padding period places
calculateEMAPadsPeriod(values, p) == Filled(p, "NaN") \o EMAValues(values, p)

\* part_001 316-337: period - 1 places of NaN, then ema
calculateEMA(values, p) == Filled(p - 1, "NaN") \o EMAValues(values, p)

InitIndicators ==
  /\ IdleMonitor
  /\ now = 1
  /\ args = DefaultArgs
  /\ limit = args.limit
  /\ interval = args.interval
  /\ IdleBacktest
  /\ IdleRun
  /\ IdleList
  /\ IdleRetry
  /\ IdleBatches
  /\ IdleLoops
  /\ IdlePipeline
  /\ IdleAnalyzer
  /\ indicatorFn \in IndicatorFns
  /\ inputArray \in NumberArrays
  /\ periodArg \in Periods
  /\ outputArray = <<>>
  /\ indicatorPc = "called"

\* part_001 228-280: calculateRSI returns
ReturnRSI ==
  /\ indicatorPc = "called"
  /\ indicatorFn = "calculateRSI"
  /\ outputArray' = calculateRSI(inputArray, periodArg)
  /\ indicatorPc' = "returned"
  /\ UNCHANGED <<indicatorFn, inputArray, periodArg>>
  /\ UNCHANGED <<monitorVars, backtestVars, analyzerVars, runVars, listVars, retryVars,
                 batchVars, loopVars, pipelineVars>>

\* part_001 316-337: calculateEMA returns
ReturnEMA ==
  /\ indicatorPc = "called"
  /\ indicatorFn = "calculateEMA"
  /\ outputArray' = calculateEMA(inputArray, periodArg)
  /\ indicatorPc' = "returned"
  /\ UNCHANGED <<indicatorFn, inputArray, periodArg>>
  /\ UNCHANGED <<monitorVars, backtestVars, analyzerVars, runVars, listVars, retryVars,
                 batchVars, loopVars, pipelineVars>>

NextIndicators == ReturnRSI \/ ReturnEMA

SpecIndicators == InitIndicators /\ [][NextIndicators]_vars

\* ------------------------------------------------------------------ claims
\* The steps of a monitoring cycle, told by the position before and after
UpdateStep == pc = "fetch" /\ pc' = "analyze"
AnalyzeStep == pc = "analyze" /\ pc' = "notify"
CleanupStep == pc = "notify" /\ pc' = "idle"

\* The symbols an alert queue holds
QueuedSymbols(queue) == {queue[i].symbol : i \in 1..Len(queue)}

AllFlagsFalse(tracked) ==
  ~tracked.downtrend /\ ~tracked.downtrendConfirmed /\ ~tracked.downtrendNotified

\* C1: while a symbol stays tracked its highestPrice never decreases, over
\* restores and failed saves too; it changes only in the update step, to a
\* gainer price strictly greater than it, and that step clears the three flags.
C1_HighestPriceMonotone ==
  [][\A s \in Symbols :
       (Has(trackedSymbols, s) /\ Has(trackedSymbols', s)) =>
         /\ trackedSymbols'[s].highestPrice >= trackedSymbols[s].highestPrice
         /\ trackedSymbols'[s].highestPrice # trackedSymbols[s].highestPrice =>
              /\ UpdateStep
              /\ gainersList'[s] > trackedSymbols[s].highestPrice
              /\ trackedSymbols'[s].highestPrice = gainersList'[s]
              /\ AllFlagsFalse(trackedSymbols'[s])]_vars

\* C2: between two consecutive new highs of a symbol at most one
\* confirmed-downtrend notification is sent for it.
C2_ConfirmedNotifiedOnce == \A s \in Symbols : confirmedSent[s] <= 1

\* C3 as stated: a tracked symbol with a result whose lastPrice is at least 5%
\* below its highestPrice, exactly 5% included, becomes confirmed in the cycle.
C3_ConfirmedAtFivePercent ==
  [][AnalyzeStep =>
       \A s \in Symbols :
         (/\ Has(trackedSymbols, s)
          /\ results'[s] # NoResult
          /\ (trackedSymbols[s].highestPrice - trackedSymbols[s].lastPrice) * 100
               >= 5 * trackedSymbols[s].highestPrice)
         => trackedSymbols'[s].downtrendConfirmed]_vars

\* C3 amended: a tracked symbol with a result whose lastPrice is more than 5%
\* below its highestPrice becomes confirmed in the cycle; at a drop of exactly
\* 5% a symbol that was not confirmed stays unconfirmed.
C3_ConfirmedAboveFivePercent ==
  [][AnalyzeStep =>
       \A s \in Symbols :
         (Has(trackedSymbols, s) /\ results'[s] # NoResult) =>
           /\ (trackedSymbols[s].highestPrice - trackedSymbols[s].lastPrice) * 100
                > 5 * trackedSymbols[s].highestPrice
              => trackedSymbols'[s].downtrendConfirmed
           /\ ((trackedSymbols[s].highestPrice - trackedSymbols[s].lastPrice) * 100
                 = 5 * trackedSymbols[s].highestPrice
               /\ ~trackedSymbols[s].downtrendConfirmed)
              => ~trackedSymbols'[s].downtrendConfirmed]_vars

\* C3 witness: a symbol with a result was confirmed in this cycle, more than 5% down
C3_Witness ==
  /\ pc = "notify"
  /\ \E s \in QueuedSymbols(confirmedDowntrendSymbols) :
       /\ results[s] # NoResult
       /\ trackedSymbols[s].downtrendConfirmed
       /\ (trackedSymbols[s].highestPrice - trackedSymbols[s].lastPrice) * 100
            > 5 * trackedSymbols[s].highestPrice

\* C4: in a cycle every tracked symbol that is more than 5% below its
\* highestPrice and not yet confirmed becomes confirmed and is queued for a
\* confirmed-downtrend notification, with or without an analysis result.
C4_ConfirmedByDropAlone ==
  [][AnalyzeStep =>
       \A s \in Symbols :
         (/\ Has(trackedSymbols, s)
          /\ ~trackedSymbols[s].downtrendConfirmed
          /\ (trackedSymbols[s].highestPrice - trackedSymbols[s].lastPrice) * 100
               > 5 * trackedSymbols[s].highestPrice)
         => /\ trackedSymbols'[s].downtrendConfirmed
            /\ s \in QueuedSymbols(confirmedDowntrendSymbols')]_vars

\* C5 as stated: a confirmed symbol is always flagged as suspected.
C5_ConfirmedImpliesDowntrend ==
  \A s \in Symbols :
    Has(trackedSymbols, s) =>
      (trackedSymbols[s].downtrendConfirmed => trackedSymbols[s].downtrend)

\* C5 amended: a symbol is notified only when confirmed, and a symbol that
\* made a new high in the cycle is back to normal: its three flags are false
\* and its lastPrice is its highestPrice.
C5_NotifiedImpliesConfirmedAndReset ==
  \A s \in Symbols :
    Has(trackedSymbols, s) =>
      /\ trackedSymbols[s].downtrendNotified => trackedSymbols[s].downtrendConfirmed
      /\ s \in newHigh =>
           /\ AllFlagsFalse(trackedSymbols[s])
           /\ trackedSymbols[s].lastPrice = trackedSymbols[s].highestPrice

\* C5 witness: a symbol that was saved as confirmed and notified has made a
\* new high above the high it was confirmed under, and its cycle has passed
\* the analysis
C5_Witness ==
  /\ pc = "notify"
  /\ \E s \in newHigh :
       /\ Has(trackedSymbols, s)
       /\ Has(analysisFile, s)
       /\ analysisFile[s].downtrendConfirmed
       /\ analysisFile[s].downtrendNotified
       /\ analysisFile[s].highestPrice < trackedSymbols[s].highestPrice
       /\ results[s] # NoResult

\* C6: the analysis step sets downtrend, and queues one exhaustion
\* notification, exactly for the tracked symbols with a result of probability
\* above 70, a lastPrice below the highestPrice and downtrend false.
C6_WeakBullishExactly ==
  [][AnalyzeStep =>
       \A s \in Symbols :
         Has(trackedSymbols, s) =>
           LET flagged == /\ results'[s] # NoResult
                          /\ results'[s].probability > 70
                          /\ trackedSymbols[s].lastPrice < trackedSymbols[s].highestPrice
                          /\ ~trackedSymbols[s].downtrend
               queued == {i \in 1..Len(weakBullishSymbols') :
                            weakBullishSymbols'[i].symbol = s}
           IN /\ flagged => trackedSymbols'[s].downtrend /\ Cardinality(queued) = 1
              /\ ~flagged => /\ trackedSymbols'[s].downtrend = trackedSymbols[s].downtrend
                             /\ queued = {}]_vars

\* C6 witness: a symbol was flagged in this cycle
C6_Witness ==
  /\ pc = "notify"
  /\ \E s \in QueuedSymbols(weakBullishSymbols) :
       /\ trackedSymbols[s].downtrend
       /\ results[s].probability > 70
       /\ trackedSymbols[s].lastPrice < trackedSymbols[s].highestPrice

\* C8: a symbol is created on its first appearance among the gainers with
\* highestPrice = lastPrice and the three flags false, and after the cleanup
\* of a completed cycle no tracked symbol was last updated more than 7 days ago.
C8_CreatedAndCleaned ==
  [][/\ UpdateStep =>
          \A s \in Symbols :
            (~Has(trackedSymbols, s) /\ gainersList'[s] # NoPrice) =>
              /\ Has(trackedSymbols', s)
              /\ trackedSymbols'[s].lastPrice = gainersList'[s]
              /\ trackedSymbols'[s].highestPrice = gainersList'[s]
              /\ trackedSymbols'[s].lastUpdateTime = now
              /\ AllFlagsFalse(trackedSymbols'[s])
     /\ CleanupStep =>
          \A s \in Symbols :
            Has(trackedSymbols', s) =>
              now' - trackedSymbols'[s].lastUpdateTime <= oneWeekInMs]_vars

\* C8 witness: a completed cycle has dropped a symbol that the file still holds
C8_Witness ==
  /\ pc = "idle"
  /\ timer = NextCheckDelay
  /\ \E s \in Symbols :
       /\ ~Has(trackedSymbols, s)
       /\ Has(analysisFile, s)
       /\ now - analysisFile[s].timestamp > oneWeekInMs

\* C10 as stated: a failed request never reaches the caller as an exception.
C10_NoExceptionPropagates == network = "error" => thrown = "none"

\* C10 amended: a failed fetchGainersList is thrown on to startMonitoring,
\* whose catch ends the cycle and schedules a retry 5 minutes later; a failed
\* fetchCandles is thrown on to analyzeSymbols, which gives the symbol no result.
C10_FailurePropagates ==
  /\ network = "error" =>
       /\ thrown = "fetchGainersList"
       /\ pc = "idle"
       /\ timer = RetryDelay
  /\ pc = "notify" =>
       \A s \in Symbols :
         (Has(trackedSymbols, s) /\ ~candles[s].ok) => results[s] = NoResult

\* C10 witness: a cycle has ended in the catch of startMonitoring
C10_Witness == network = "error" /\ thrown = "fetchGainersList" /\ timer = RetryDelay

\* C7: on the same gainers and the same analysis results the backtest and the
\* monitor leave every symbol with the same highestPrice and the same three
\* flags, and report the same exhaustion and confirmed-downtrend events.
C7_BacktestReplaysMonitor ==
  /\ \A s \in Symbols :
       /\ Has(trackedSymbols, s) <=> Has(btTracked, s)
       /\ (Has(trackedSymbols, s) /\ Has(btTracked, s)) =>
            /\ trackedSymbols[s].highestPrice = btTracked[s].highestPrice
            /\ trackedSymbols[s].downtrend = btTracked[s].downtrend
            /\ trackedSymbols[s].downtrendConfirmed = btTracked[s].downtrendConfirmed
            /\ trackedSymbols[s].downtrendNotified = btTracked[s].downtrendNotified
  /\ QueuedSymbols(weakBullishSymbols) = uptrendFailureSignals
  /\ QueuedSymbols(confirmedDowntrendSymbols) = downtrendConfirmedSignals

\* C9: for at least 30 candles the probability analyzeSymbol returns lies in
\* 0..100, and so does the strength of every signal it emits.
C9_ProbabilityInRange ==
  analysisResult # NoResult =>
    /\ analysisResult.probability.n >= 0
    /\ analysisResult.probability.n <= 100 * analysisResult.probability.d
    /\ \A k \in 1..Len(analysisResult.signals) :
         /\ analysisResult.signals[k].strength.n >= 0
         /\ analysisResult.signals[k].strength.n
              <= 100 * analysisResult.signals[k].strength.d

\* C9 witness: two or more signals, one of them cut to 100, and a probability
\* that the factor 1.2 would take above 100
C9_Witness ==
  /\ analysisResult # NoResult
  /\ indicators.length >= 30
  /\ Len(analysisResult.signals) >= 2
  /\ indicators.bandDev > indicators.bandWidth
  /\ analysisResult.probability.n = 100 * analysisResult.probability.d
  /\ TotalWeight(analysisResult.signals).n * 12
       > 1000 * Len(analysisResult.signals) * TotalWeight(analysisResult.signals).d

\* C11: the tracked map restored at the start of a cycle, in the same process
\* or after a restart, equals the map that was handed to saveAnalysisResult at
\* the end of the last completed cycle, symbol by symbol and field by field.
C11_RestoredEqualsSaved ==
  (pc = "fetch" /\ savedTracking # NoSave) =>
    \A s \in Symbols :
      /\ Has(trackedSymbols, s) <=> Has(savedTracking, s)
      /\ Has(savedTracking, s) =>
           /\ trackedSymbols[s].lastPrice = savedTracking[s].lastPrice
           /\ trackedSymbols[s].highestPrice = savedTracking[s].highestPrice
           /\ trackedSymbols[s].lastUpdateTime = savedTracking[s].timestamp
           /\ trackedSymbols[s].downtrend = savedTracking[s].downtrend
           /\ trackedSymbols[s].downtrendConfirmed = savedTracking[s].downtrendConfirmed
           /\ trackedSymbols[s].downtrendNotified = savedTracking[s].downtrendNotified

\* C14: between two consecutive new highs of a symbol at most one
\* uptrend-exhaustion notification is sent for it.
C14_ExhaustionNotifiedOnce == \A s \in Symbols : weakSent[s] <= 1

\* C12: monitoring never stops.  After every cycle, completed or failed,
\* exactly one call of startMonitoring is pending, with the limit and the
\* interval of the command line, 60 minutes after a completed cycle and 5
\* minutes after a failed one, whatever --interval is; nothing is pending
\* while a cycle runs; and cycles start again and again.
C12_AlwaysRescheduled ==
  /\ []((pc = "idle" /\ timer # 0) =>
         pending = <<[delay |-> IF thrown = "none" THEN 60 ELSE 5,
                      limit |-> args.limit, interval |-> args.interval]>>)
  /\ [](pc # "idle" => pending = <<>>)
  /\ []<>(pc = "fetch")

\* C12 witness: started with --limit=50 --interval=4h, a cycle has completed
\* and the one after it has failed
C12_Witness ==
  /\ args = [limit |-> 50, interval |-> "4h"]
  /\ pc = "idle"
  /\ thrown = "fetchGainersList"
  /\ savedTracking # NoSave
  /\ Len(pending) = 1
  /\ pending[1].delay = 5

\* The calendar days from first through last, in ascending order
DaysFromTo(first, last) ==
  [i \in 1..(IF last >= first THEN last - first + 1 ELSE 0) |-> first + i - 1]

\* C13: called with a start date and no end date, runBacktest takes the
\* current date as the end date, and the days it has processed when it ends
\* are those from the start date through today.
C13_EndDateDefaultsToToday ==
  (btArgs.endDate = NoDate /\ btPc \in {"loop", "done"}) =>
    /\ endDate = today
    /\ btPc = "done" => processedDays = DaysFromTo(btArgs.startDate, today)

\* C15: in one runBacktest a symbol is reported as exhausted on at most one
\* day, and as confirmed on at most one day, between two consecutive new
\* highs of that symbol.
C15_BacktestReportsOnce ==
  \A s \in Symbols : failureDays[s] <= 1 /\ confirmedDays[s] <= 1

\* C20: with no fetch raising, runBacktest ends, and when it has ended
\* processDay was called exactly once for each calendar day from startDate
\* through endDate, in ascending order; with endDate before startDate it was
\* not called at all.
C20_EveryDayOnceInOrder ==
  /\ btPc = "done" => processedDays = DaysFromTo(btArgs.startDate, endDate)
  /\ btPc = "loop" => ENABLED (ProcessDay \/ BacktestEnds)

\* C16: in the backtest a notified symbol is confirmed and a confirmed symbol
\* is flagged as suspected, in every reachable state; a symbol becomes
\* confirmed only on a day that leaves it suspected and at least 5% below its
\* highestPrice.
C16_BacktestFlagsOrdered ==
  /\ [](\A s \in Symbols :
          Has(btTracked, s) =>
            /\ btTracked[s].downtrendNotified => btTracked[s].downtrendConfirmed
            /\ btTracked[s].downtrendConfirmed => btTracked[s].downtrend)
  /\ [][\A s \in Symbols :
          (/\ Has(btTracked', s)
           /\ btTracked'[s].downtrendConfirmed
           /\ \/ ~Has(btTracked, s)
              \/ ~btTracked[s].downtrendConfirmed
              \/ btTracked[s].highestPrice # btTracked'[s].highestPrice)
          => /\ btTracked'[s].downtrend
             /\ (btTracked'[s].highestPrice - btTracked'[s].lastPrice) * 100
                  >= 5 * btTracked'[s].highestPrice]_vars

\* C16 witness: a symbol was confirmed on the last processed day, at least 5%
\* below its highestPrice, reported that day and marked as notified
C16_Witness ==
  /\ btPc = "loop"
  /\ \E s \in downtrendConfirmedSignals :
       /\ btTracked[s].downtrend
       /\ btTracked[s].downtrendConfirmed
       /\ btTracked[s].downtrendNotified
       /\ (btTracked[s].highestPrice - btTracked[s].lastPrice) * 100
            >= 5 * btTracked[s].highestPrice

\* The greatest common divisor of two naturals, not both 0
RECURSIVE GCD(_, _)
GCD(a, b) == IF b = 0 THEN a ELSE GCD(b, a % b)

\* A fraction of numerator >= 0 in lowest terms
Reduced(a) == LET g == GCD(a.n, a.d) IN Frac(a.n \div g, a.d \div g)

\* Equality of two fractions
FEq(a, b) == Reduced(a) = Reduced(b)

\* C17: the probability of analyzeSymbol is 0 with no signal, the strength of
\* the signal with exactly one, and min(100, 1.2 * sum(strengths) / n) with
\* n >= 2 signals.
C17_ProbabilityFormula ==
  analysisResult # NoResult =>
    LET signals == analysisResult.signals
        n == Len(signals)
        boosted == FMul(TotalWeight(signals), Frac(12, 10 * n))
    IN /\ n = 0 => FEq(analysisResult.probability, Frac(0, 1))
       /\ n = 1 => FEq(analysisResult.probability, signals[1].strength)
       /\ n >= 2 =>
            FEq(analysisResult.probability,
                IF boosted.n > 100 * boosted.d THEN Frac(100, 1) ELSE boosted)

\* C17 witness: two signals whose average times 1.2 stays below 100
C17_Witness ==
  /\ analysisResult # NoResult
  /\ Len(analysisResult.signals) = 2
  /\ analysisResult.probability.n < 100 * analysisResult.probability.d
  /\ FEq(analysisResult.probability,
         FMul(TotalWeight(analysisResult.signals), Frac(12, 20)))

\* The places of the input whose fetch gave 30 candles or more
OkPlaces == {i \in 1..Len(listOutcomes) : listOutcomes[i].kind = "ok"}

\* C18: analyzeSymbols returns, in input order, exactly one result for every
\* place of the input whose fetch succeeded with 30 candles or more, with the
\* symbol and the lastPrice of that place as symbol and price, and no other
\* result; a failure at one place leaves the results collected so far as
\* they are, and the loop always goes on to the next place or to the return.
C18_OneResultPerAnalysed ==
  /\ [](listPc = "returned" =>
          /\ Len(listOutcomes) = Len(symbolInfos)
          /\ Len(listResults) = Cardinality(OkPlaces)
          /\ \A i \in OkPlaces :
               LET rank == Cardinality({j \in OkPlaces : j <= i})
               IN /\ listResults[rank].symbol = symbolInfos[i].symbol
                  /\ listResults[rank].price = symbolInfos[i].lastPrice
                  /\ listResults[rank].probability = listOutcomes[i].probability)
  /\ [][/\ Len(listResults') >= Len(listResults) \/ listPc = "idle"
        /\ listPc = "loop" =>
             /\ SubSeq(listResults', 1, Len(listResults)) = listResults
             /\ listPc' \in {"loop", "returned"}]_vars
  /\ [](listPc = "loop" => ENABLED NextAnalyzeList)

\* C18 witness: of two places the first failed in its fetch and the second
\* was analysed, on candles whose last close is not the lastPrice
C18_Witness ==
  /\ listPc = "returned"
  /\ Len(symbolInfos) = 2
  /\ listOutcomes[1].kind = "fetchError"
  /\ listOutcomes[2].kind = "ok"
  /\ listOutcomes[2].close # symbolInfos[2].lastPrice
  /\ Len(listResults) = 1
  /\ listResults[1].price = symbolInfos[2].lastPrice

\* The calls of fn that failed
FailedCalls == {k \in 1..Len(fnCalls) : fnCalls[k].kind = "error"}

\* C19: withRetry calls fn at most retries times; when it returns, the last
\* call is the first that succeeded, its value is the one returned, and fn is
\* not called again; when it throws, fn was called retries times, every call
\* failed, and the error thrown is that of the last call; there is one wait of
\* delayMs after each failed call, but none after the failed call number
\* retries.
C19_RetryContract ==
  /\ [](/\ Len(fnCalls) <= retries
        /\ retryPc = "returned" =>
             /\ fnCalls # <<>>
             /\ FailedCalls = 1..(Len(fnCalls) - 1)
             /\ retryValue = fnCalls[Len(fnCalls)]
             /\ retryValue.kind = "value"
        /\ retryPc = "threw" =>
             /\ Len(fnCalls) = retries
             /\ FailedCalls = 1..retries
             /\ retries >= 1 => retryValue = fnCalls[retries]
        /\ retryPc \in {"returned", "threw"} =>
             delays = [k \in 1..Cardinality(FailedCalls \ {retries}) |->
                         [i |-> k - 1, ms |-> delayMs]])
  /\ [][(retryPc \in {"returned", "threw"}) => UNCHANGED fnCalls]_vars

\* C19 witness: three calls allowed, all three failed with a last error that
\* is not the first one, two waits, and the last error thrown
C19_Witness ==
  /\ retryPc = "threw"
  /\ retries = 3
  /\ Len(fnCalls) = 3
  /\ fnCalls[1].id # fnCalls[3].id
  /\ retryValue = fnCalls[3]
  /\ Len(delays) = 2

\* The number of turns the loop of runBacktest has from startDate to endDate
RangeLength ==
  IF endDateObj >= ParseDate(btArgs.startDate)
  THEN (endDateObj - ParseDate(btArgs.startDate)) \div HoursPerDay + 1
  ELSE 0

\* C21: a failure to obtain the gainers of one day does not stop the
\* backtest: when runBacktest is over, whether or not a fetch has failed,
\* processDay was called for every day of the range.
C21_FetchFailureKeepsGoing ==
  btPc \in {"done", "failed"} => Len(processedDays) = RangeLength

\* The symbols whose chain is in flight, and those whose chain gave an item
InFlight == {s \in TradingSymbols : hgChain[s] = "inflight"}
ItemSymbols == {s \in TradingSymbols : hgChain[s] = "item"}
ReturnedSymbols == {sortedGainers[k].symbol : k \in 1..Len(sortedGainers)}

\* C22: fetchHistoricalGainers handles every TRADING symbol in exactly one
\* batch of at most 10 symbols; at most 10 chains are in flight at any time;
\* a batch starts only when every chain of the batch before has settled and
\* the 500 ms timer after it has fired; and a symbol whose chain gave null
\* is the only one its failure removes: what is returned are the symbols
\* whose chain gave an item, the limit greatest changes of them, in
\* descending order of change.
C22_BatchesOfTen ==
  /\ [](/\ Cardinality(InFlight) <= chunkSize
        /\ \A s \in TradingSymbols : Cardinality(hgBatchOf[s]) <= 1
        /\ \A b \in 1..hgBatches :
             Cardinality({s \in TradingSymbols : b \in hgBatchOf[s]}) <= chunkSize
        /\ hgPc = "returned" =>
             /\ \A s \in TradingSymbols :
                  Cardinality(hgBatchOf[s]) = (IF s <= hgTrading THEN 1 ELSE 0)
             /\ ReturnedSymbols \subseteq ItemSymbols
             /\ Len(sortedGainers) = Cardinality(ReturnedSymbols)
             /\ Len(sortedGainers) =
                  (IF Cardinality(ItemSymbols) < hgLimit
                   THEN Cardinality(ItemSymbols) ELSE hgLimit)
             /\ \A k \in 1..(Len(sortedGainers) - 1) :
                  sortedGainers[k].priceChangePercent
                    >= sortedGainers[k + 1].priceChangePercent
             /\ \A s \in ItemSymbols \ ReturnedSymbols, k \in 1..Len(sortedGainers) :
                  ChangeOf(s) <= sortedGainers[k].priceChangePercent)
  /\ [][hgBatches' # hgBatches =>
          /\ InFlight = {}
          /\ hgDelays = [b \in 1..hgBatches |-> [after |-> b, ms |-> BatchDelay]]]_vars

\* C22 witness: twelve TRADING symbols went through two batches and two
\* timers; one chain of the first batch and one of the second gave null, and
\* the other ten symbols are returned
C22_Witness ==
  /\ hgPc = "returned"
  /\ hgTrading = 12
  /\ hgBatches = 2
  /\ Len(hgDelays) = 2
  /\ hgChain[3] = "null"
  /\ hgChain[12] = "null"
  /\ ReturnedSymbols = (1..11) \ {3}

\* The places of the log that hold a notification of that kind
LogPlaces(kind) == {i \in 1..Len(notifyLog) : notifyLog[i].kind = kind}
LoggedSymbols(kind) == {notifyLog[i].symbol : i \in LogPlaces(kind)}

\* The drop from the high of a is at least that of b, without the division
DropNotLess(a, b) ==
  (a.highestPrice - a.price) * b.highestPrice >= (b.highestPrice - b.price) * a.highestPrice

\* The symbols whose downtrend flag, or whose downtrendNotified flag, was
\* set since the file was restored
NewlyWeak ==
  {s \in Symbols : /\ Has(trackedSymbols, s) /\ trackedSymbols[s].downtrend
                   /\ ~(Has(analysisFile, s) /\ analysisFile[s].downtrend)}
NewlyConfirmed ==
  {s \in Symbols : /\ Has(trackedSymbols, s) /\ trackedSymbols[s].downtrendNotified
                   /\ ~(Has(analysisFile, s) /\ analysisFile[s].downtrendNotified)}

\* C23: within one cycle the exhaustion notifications are sent in
\* non-increasing order of probability, the confirmed-downtrend notifications
\* in non-increasing order of drop, every exhaustion notification before
\* every confirmed-downtrend notification, and when the tracked state is
\* saved every symbol flagged in the cycle has had its notification, once.
C23_NotificationsInOrder ==
  /\ [](/\ \A i \in LogPlaces("weak"), j \in LogPlaces("confirmed") : i < j
        /\ \A i \in LogPlaces("weak"), j \in LogPlaces("weak") :
             i < j => notifyLog[i].probability >= notifyLog[j].probability
        /\ \A i \in LogPlaces("confirmed"), j \in LogPlaces("confirmed") :
             i < j => DropNotLess(notifyLog[i], notifyLog[j]))
  /\ [][CleanupStep =>
          /\ LoggedSymbols("weak") = NewlyWeak
          /\ LoggedSymbols("confirmed") = NewlyConfirmed
          /\ Len(notifyLog) = Cardinality(NewlyWeak) + Cardinality(NewlyConfirmed)]_vars

\* C23 witness: four notifications were sent in one cycle, the exhaustion of
\* symbol 2 with the greater probability before that of symbol 1, then the
\* confirmed downtrend of symbol 2 with the greater drop before that of
\* symbol 1, and nothing is left to send
C23_Witness ==
  /\ pc = "notify"
  /\ weakBullishSymbols = <<>>
  /\ confirmedDowntrendSymbols = <<>>
  /\ Len(notifyLog) = 4
  /\ notifyLog[1].kind = "weak" /\ notifyLog[1].symbol = 2
  /\ notifyLog[2].kind = "weak" /\ notifyLog[2].symbol = 1
  /\ notifyLog[1].probability > notifyLog[2].probability
  /\ notifyLog[3].kind = "confirmed" /\ notifyLog[3].symbol = 2
  /\ notifyLog[4].kind = "confirmed" /\ notifyLog[4].symbol = 1
  /\ ~DropNotLess(notifyLog[4], notifyLog[3])

\* C24: in the monitor and in the backtest alike, the highestPrice of every
\* tracked symbol is at least its lastPrice in every state, the one after
\* the price update included, so that the drop from the high is never
\* negative.
C24_HighNotBelowLast ==
  \A s \in Symbols :
    /\ Has(trackedSymbols, s) => trackedSymbols[s].highestPrice >= trackedSymbols[s].lastPrice
    /\ Has(btTracked, s) => btTracked[s].highestPrice >= btTracked[s].lastPrice

\* C24 witness: the update step of the monitor has just taken a price that is
\* below the high of a symbol it was already tracking
C24_Witness ==
  /\ pc = "analyze"
  /\ Has(trackedSymbols, 1)
  /\ gainersList[1] # NoPrice
  /\ trackedSymbols[1].lastPrice = gainersList[1]
  /\ trackedSymbols[1].lastPrice < trackedSymbols[1].highestPrice

\* C25: in the monitor downtrendNotified equals downtrendConfirmed for every
\* tracked symbol, in memory and in the file, at every cycle boundary and
\* within the cycles too; a step that changes one of the two flags of a
\* symbol changes the other.
C25_NotifiedEqualsConfirmed ==
  /\ [](\A s \in Symbols :
          /\ Has(trackedSymbols, s) =>
               trackedSymbols[s].downtrendNotified = trackedSymbols[s].downtrendConfirmed
          /\ Has(analysisFile, s) =>
               analysisFile[s].downtrendNotified = analysisFile[s].downtrendConfirmed)
  /\ [][\A s \in Symbols :
          (Has(trackedSymbols, s) /\ Has(trackedSymbols', s)) =>
            ((trackedSymbols'[s].downtrendConfirmed # trackedSymbols[s].downtrendConfirmed)
               <=> (trackedSymbols'[s].downtrendNotified
                      # trackedSymbols[s].downtrendNotified))]_vars

\* C25 witness: at a cycle boundary a symbol whose high is the greatest
\* price has both flags set, and its confirmed downtrend was notified once
C25_Witness ==
  /\ pc = "idle"
  /\ Has(trackedSymbols, 1)
  /\ trackedSymbols[1].downtrendConfirmed
  /\ trackedSymbols[1].downtrendNotified
  /\ trackedSymbols[1].highestPrice = 19 + PriceSteps
  /\ confirmedSent[1] = 1

\* C26: whether the program is started through main.ts or through
\* src/index.ts, at most one startMonitoring cycle is in flight at any time.
C26_OneCycleInFlight == Cardinality(CyclesInFlight) <= 1

\* The three fields the update step writes
SamePriceFields(a, b) ==
  /\ a.lastPrice = b.lastPrice
  /\ a.highestPrice = b.highestPrice
  /\ a.lastUpdateTime = b.lastUpdateTime

CleanedSymbols ==
  {s \in Symbols : /\ pc = "idle"
                   /\ timer = NextCheckDelay
                   /\ Has(savedTracking, s)
                   /\ ~Has(trackedSymbols, s)}

\* C28: a symbol the cleanup removed for 7 days of inactivity is not brought
\* back by the restore from the persisted file at the start of the next cycle.
C28_CleanedStaysOut ==
  [][(pc = "idle" /\ pc' = "fetch") =>
        \A s \in CleanedSymbols : ~Has(trackedSymbols', s)]_vars

\* The six signal checks of analyzeSymbol
SixChecks == {"RSI", "Bollinger", "MACD", "MA", "MA200", "Volume"}

\* C29: each of the six signal checks is emitted for some candle sequence that
\* analyzeSymbols passes to analyzeSymbol (30 to 100 candles): when every such
\* case has been analysed, every check, break-below-MA200 included, has been
\* emitted at least once.
C29_EveryCheckEmitted ==
  sweepAt = PipelineCases => SixChecks \subseteq emitted

\* The fewest elements for which the function computes a first value
EnoughData ==
  IF indicatorFn = "calculateRSI"
  THEN Len(inputArray) >= periodArg + 1
  ELSE Len(inputArray) >= periodArg

====
